---- MODULE Spec2Model ----
(***************************************************************************)
(* Model of the assignment analyser: the Express server (src/server.js)    *)
(* and the browser script (src/unnamed/part_001).                          *)
(*                                                                         *)
(* A text is a sequence of characters, each character a one-character      *)
(* string.  JavaScript numbers are modelled as exact integers and          *)
(* rationals (a record [n, d] in lowest terms, d = 0 for the infinities    *)
(* and NaN), without the rounding of floating point; a square root is      *)
(* never evaluated, every test on one is decided by squaring.              *)
(*                                                                         *)
(* One behaviour of Spec is one request to POST /analyze with a text in    *)
(* its body, or one click on Analyze in the browser; SpecServer is the     *)
(* server with requests in flight, SpecPage the page with its buttons.     *)
(***************************************************************************)
EXTENDS Integers, Sequences, FiniteSets, TLC

VARIABLES
  referenceText,  \* server.js: the module variable read from reference.txt at start
  inputText,      \* the text of the request body (server) or of the textarea (client)
  files,          \* client: the extracted texts of selectedFiles, in order
  pc,             \* "request" or "click", then "served", "alerted" or "analyzed"
  requestWords,   \* server: the local variable words of the POST /analyze handler
  response,       \* server: the object given to res.json by POST /analyze
  processed,      \* client: the array processed of the Analyze click handler
  filesContent,   \* client: the array filesContent of the Analyze click handler
  requests,       \* server: the requests in flight, each with its handler's position and locals
  uploads,        \* server: the files multer has stored in the uploads directory, by path
  dom,            \* browser page: the elements the script writes and the window properties it sets
  sessionStorage, \* browser page: the items of window.sessionStorage, which outlive a page load
  handler         \* browser page: the position and the locals of the Analyze click handler

vars == <<referenceText, inputText, files, pc, requestWords, response, processed, filesContent,
          requests, uploads, dom, sessionStorage, handler>>

pageVars == <<dom, sessionStorage, handler>>

(***************************************************************************)
(* Characters                                                              *)
(***************************************************************************)
BS == "<BS>"   \* U+0008, what the escape \b denotes inside a JS string literal

UpperLetters == {"A","B","C","D","E","F","G","H","I","J","K","L","M",
                 "N","O","P","Q","R","S","T","U","V","W","X","Y","Z"}
LowerLetters == {"a","b","c","d","e","f","g","h","i","j","k","l","m",
                 "n","o","p","q","r","s","t","u","v","w","x","y","z"}
Digits == {"0","1","2","3","4","5","6","7","8","9"}

LowerOf ==
  ("A" :> "a") @@ ("B" :> "b") @@ ("C" :> "c") @@ ("D" :> "d") @@ ("E" :> "e") @@
  ("F" :> "f") @@ ("G" :> "g") @@ ("H" :> "h") @@ ("I" :> "i") @@ ("J" :> "j") @@
  ("K" :> "k") @@ ("L" :> "l") @@ ("M" :> "m") @@ ("N" :> "n") @@ ("O" :> "o") @@
  ("P" :> "p") @@ ("Q" :> "q") @@ ("R" :> "r") @@ ("S" :> "s") @@ ("T" :> "t") @@
  ("U" :> "u") @@ ("V" :> "v") @@ ("W" :> "w") @@ ("X" :> "x") @@ ("Y" :> "y") @@
  ("Z" :> "z")

\* the regex class \s (also what String.prototype.trim removes)
Spaces == {" ", "\n", "\t", "\r"}
IsSpace(c) == c \in Spaces
\* the regex class [.!?]
Terminators == {".", "!", "?"}
IsTerminator(c) == c \in Terminators
\* the regex class \w
IsWordChar(c) == c \in UpperLetters \cup LowerLetters \cup Digits \cup {"_"}

\* the character class of server.js line 22; it holds the backslash (\\) and the slash
PunctuationServer ==
  {".", ",", "\\", "/", "#", "!", "$", "%", "^", "&", "*", ";", ":", "{", "}",
   "=", "-", "_", "`", "~", "(", ")", "[", "]", "\"", "'", "<", ">", "?", "@", "+"}
\* the character class of part_001 line 8; \/ is the slash alone
PunctuationClient == PunctuationServer \ {"\\"}

(***************************************************************************)
(* String primitives                                                       *)
(***************************************************************************)
toLowerCase(s) == [i \in 1..Len(s) |-> IF s[i] \in UpperLetters THEN LowerOf[s[i]] ELSE s[i]]

\* s.replace(/[class]/, ''), the pattern without its g flag: the first match only
RemoveFirst(s, class) ==
  IF \E i \in 1..Len(s) : s[i] \in class
  THEN LET k == CHOOSE i \in 1..Len(s) :
                  s[i] \in class /\ \A j \in 1..(i-1) : s[j] \notin class
       IN SubSeq(s, 1, k - 1) \o SubSeq(s, k + 1, Len(s))
  ELSE s

\* s.replace(/[class]/g, '')
RemoveAll(s, class) == SelectSeq(s, LAMBDA c : c \notin class)

\* s.replace(/\s+/g, ' ')
CollapseSpaces(s) ==
  LET m == [i \in 1..Len(s) |->
              IF IsSpace(s[i])
              THEN (IF i > 1 /\ IsSpace(s[i-1]) THEN "" ELSE " ")
              ELSE s[i]]
  IN SelectSeq(m, LAMBDA c : c # "")

\* the first index j >= i of s at which (s[j] \in class) differs from member,
\* Len(s)+1 if none: the end of a greedy run [class]* or [^class]* that starts at i
SkipWhile(s, i, class, member) ==
  CHOOSE j \in i..(Len(s) + 1) :
    /\ j = Len(s) + 1 \/ (s[j] \in class) # member
    /\ \A k \in i..(j - 1) : (s[k] \in class) = member

\* s.trim()
trim(s) ==
  LET ns == {i \in 1..Len(s) : ~IsSpace(s[i])}
  IN IF ns = {} THEN <<>>
     ELSE LET lo == CHOOSE i \in ns : \A j \in ns : i <= j
              hi == CHOOSE i \in ns : \A j \in ns : i >= j
          IN SubSeq(s, lo, hi)

\* the indices of s that satisfy Test, in increasing order
IndicesWhere(s, Test(_)) == SelectSeq([i \in 1..Len(s) |-> i], Test)

\* the pieces of s between the separators, separator k being s[from[k]..to[k]]
PiecesBetween(s, from, to) ==
  [k \in 1..(Len(from) + 1) |->
     SubSeq(s, IF k = 1 THEN 1 ELSE to[k-1] + 1,
               IF k > Len(from) THEN Len(s) ELSE from[k] - 1)]

\* s.split(sep) for a one-character separator; '' splits to ['']
split(s, sep) ==
  LET at == IndicesWhere(s, LAMBDA i : s[i] = sep)
  IN PiecesBetween(s, at, at)

\* arr.filter(Boolean) on an array of strings
filterBoolean(arr) == SelectSeq(arr, LAMBDA w : w # <<>>)

RECURSIVE JoinRange(_, _, _, _)
JoinRange(arr, sep, lo, hi) ==
  IF lo > hi THEN <<>>
  ELSE IF lo = hi THEN arr[lo]
  ELSE LET mid == (lo + hi) \div 2
       IN JoinRange(arr, sep, lo, mid) \o sep \o JoinRange(arr, sep, mid + 1, hi)

\* arr.join(sep)
join(arr, sep) == JoinRange(arr, sep, 1, Len(arr))

\* s.slice(a, b) with 0-based offsets 0 <= a <= b <= s.length
slice(s, a, b) == SubSeq(s, a + 1, b)

\* whether pattern p occurs in s at the 1-based index i
OccursAt(s, p, i) ==
  /\ i >= 1
  /\ i + Len(p) - 1 <= Len(s)
  /\ \A k \in 1..Len(p) : s[i + k - 1] = p[k]

\* s.includes(p)
includes(s, p) == \E i \in 1..(Len(s) - Len(p) + 1) : OccursAt(s, p, i)

\* new Set(arr).size
SetSize(arr) == Cardinality({arr[i] : i \in 1..Len(arr)})

RECURSIVE SumRange(_, _, _)
SumRange(arr, lo, hi) ==
  IF lo > hi THEN 0
  ELSE IF lo = hi THEN arr[lo]
  ELSE LET mid == (lo + hi) \div 2
       IN SumRange(arr, lo, mid) + SumRange(arr, mid + 1, hi)
Sum(arr) == SumRange(arr, 1, Len(arr))

SeqMax(arr) == CHOOSE x \in {arr[i] : i \in 1..Len(arr)} : \A j \in 1..Len(arr) : x >= arr[j]
SeqMin(arr) == CHOOSE x \in {arr[i] : i \in 1..Len(arr)} : \A j \in 1..Len(arr) : x <= arr[j]

(***************************************************************************)
(* Tokenizer                                                               *)
(***************************************************************************)
\* server.js normalizeToWords
normalizeToWords(text) ==
  filterBoolean(split(trim(CollapseSpaces(RemoveAll(toLowerCase(text), PunctuationServer))), " "))

\* part_001 normalizeToWords
normalizeToWordsClient(text) ==
  LET cleaned == trim(CollapseSpaces(RemoveAll(toLowerCase(text), PunctuationClient)))
  IN IF cleaned = <<>> THEN <<>> ELSE filterBoolean(split(cleaned, " "))

\* part_001 splitToSentences, after text.replace(/\n+/g, ' '): the pieces of
\* split(/(?<=[.!?])\s+/), a separator being a whitespace run that follows a terminator
SplitAfterTerminator(s) ==
  LET from == IndicesWhere(s, LAMBDA i : IsSpace(s[i]) /\ i > 1 /\ IsTerminator(s[i-1]))
      to == [k \in 1..Len(from) |-> SkipWhile(s, from[k], Spaces, TRUE) - 1]
  IN PiecesBetween(s, from, to)

\* s.replace(/\n+/g, ' ')
ReplaceNewlines(s) ==
  LET m == [i \in 1..Len(s) |->
              IF s[i] = "\n"
              THEN (IF i > 1 /\ s[i-1] = "\n" THEN "" ELSE " ")
              ELSE s[i]]
  IN SelectSeq(m, LAMBDA c : c # "")

splitToSentences(text) ==
  LET parts == SplitAfterTerminator(ReplaceNewlines(text))
      trimmed == [i \in 1..Len(parts) |-> trim(parts[i])]
  IN filterBoolean(trimmed)


\* server.js splitSentencesWithPosition: the while loop over the matches of /[.!?]+/g.
\* lastIndex is the 0-based offset of the last close, where the next search starts.
RECURSIVE splitLoop(_, _, _)
splitLoop(text, lastIndex, sentences) ==
  LET i == SkipWhile(text, lastIndex + 1, Terminators, FALSE)   \* 1-based match.index + 1
  IN
  IF i > Len(text)
  THEN \* catch any remaining text
       IF lastIndex < Len(text)
       THEN LET remaining == trim(slice(text, lastIndex, Len(text)))
            IN IF remaining # <<>>
               THEN Append(sentences, [text |-> remaining, start |-> lastIndex, end |-> Len(text)])
               ELSE sentences
       ELSE sentences
  ELSE LET endIndex == SkipWhile(text, i, Terminators, TRUE) - 1   \* match.index + match[0].length
           sentence == trim(slice(text, lastIndex, endIndex))
       IN splitLoop(text, endIndex,
                    IF sentence # <<>>
                    THEN Append(sentences, [text |-> sentence, start |-> lastIndex, end |-> endIndex])
                    ELSE sentences)

\* splitSentencesWithPosition recording end: endIndex + 1, one past the close
splitSentencesEndAfter(text) ==
  LET sentences == splitLoop(text, 0, <<>>)
  IN [k \in 1..Len(sentences) |-> [sentences[k] EXCEPT !.end = @ + 1]]

\* splitSentencesWithPosition recording as start the offset of the trimmed text
splitSentencesTrimmedStart(text) ==
  LET sentences == splitLoop(text, 0, <<>>)
  IN [k \in 1..Len(sentences) |->
        [sentences[k] EXCEPT !.start = SkipWhile(text, @ + 1, Spaces, TRUE) - 1]]

splitSentencesWithPosition(text) == splitLoop(text, 0, <<>>)

\* part_001 line 779: text.match(/[^.!?]+[.!?]*\s*/g), null (here <<>>) without a match
RECURSIVE matchDelimited(_, _, _)
matchDelimited(text, from, acc) ==
  LET i == SkipWhile(text, from, Terminators, TRUE)   \* no match starts at a terminator
  IN IF i > Len(text) THEN acc
     ELSE LET j == SkipWhile(text, i, Terminators, FALSE)
              k == SkipWhile(text, j, Terminators, TRUE)
              m == SkipWhile(text, k, Spaces, TRUE)
          IN matchDelimited(text, m, Append(acc, SubSeq(text, i, m - 1)))

\* (text && text.match(...)) || doc.sentences || []
sentencesWithDelimiters(text, docSentences) ==
  LET matched == IF text = <<>> THEN <<>> ELSE matchDelimited(text, 1, <<>>)
  IN IF matched # <<>> THEN matched ELSE docSentences

(***************************************************************************)
(* Numbers: exact rationals                                                *)
(***************************************************************************)
RECURSIVE GCD(_, _)
GCD(a, b) == IF b = 0 THEN a ELSE GCD(b, a % b)

Abs(x) == IF x < 0 THEN -x ELSE x

\* A number is n/d in lowest terms with d >= 0: a rational when d > 0, Infinity
\* 1/0, -Infinity -1/0 and NaN 0/0
NaN == [n |-> 0, d |-> 0]
IsNaN(x) == x.n = 0 /\ x.d = 0

Rat(n, d) ==
  LET g == GCD(Abs(n), Abs(d))
      sgn == IF d < 0 THEN -1 ELSE 1
  IN IF g = 0 THEN NaN ELSE [n |-> sgn * (n \div g), d |-> sgn * (d \div g)]

RInt(k) == [n |-> k, d |-> 1]
RAdd(x, y) == Rat(x.n * y.d + y.n * x.d, x.d * y.d)
RSub(x, y) == Rat(x.n * y.d - y.n * x.d, x.d * y.d)
RMul(x, y) == Rat(x.n * y.n, x.d * y.d)
RDiv(x, y) == Rat(x.n * y.d, x.d * y.n)
\* < and <=: false when either side is NaN
RLess(x, y) ==
  /\ ~IsNaN(x) /\ ~IsNaN(y)
  /\ IF x.d = 0 /\ y.d = 0 THEN x.n < y.n ELSE x.n * y.d < y.n * x.d
RLeq(x, y) ==
  /\ ~IsNaN(x) /\ ~IsNaN(y)
  /\ IF x.d = 0 /\ y.d = 0 THEN x.n <= y.n ELSE x.n * y.d <= y.n * x.d
\* Math.min and Math.max: NaN when either argument is NaN
RMin(x, y) == IF IsNaN(x) \/ IsNaN(y) THEN NaN ELSE IF RLeq(x, y) THEN x ELSE y
RMax(x, y) == IF IsNaN(x) \/ IsNaN(y) THEN NaN ELSE IF RLeq(x, y) THEN y ELSE x
IsInteger(x) == x.d = 1
\* Math.floor
RFloor(x) == x.n \div x.d
\* Math.ceil
RCeil(x) == -((-x.n) \div x.d)
\* Math.round of a rational: the nearest integer, a half rounded up
RRound(x) == (2 * x.n + x.d) \div (2 * x.d)
\* Math.round as a number: NaN and the infinities are returned as they are
MathRound(x) == IF x.d = 0 THEN x ELSE RInt(RRound(x))

Min(a, b) == IF a <= b THEN a ELSE b
Max(a, b) == IF a >= b THEN a ELSE b

\* Products beyond 32 bits: a natural number as its digits in base 10000, the least
\* significant first and the most significant not 0 (0 is the empty sequence)
RECURSIVE BigOf(_)
BigOf(n) == IF n = 0 THEN <<>> ELSE <<n % 10000>> \o BigOf(n \div 10000)

RECURSIVE BigCarry(_, _, _)
BigCarry(cols, k, carry) ==
  IF k > Len(cols) THEN BigOf(carry)
  ELSE <<(cols[k] + carry) % 10000>> \o BigCarry(cols, k + 1, (cols[k] + carry) \div 10000)

BigMul(x, y) ==
  IF x = <<>> \/ y = <<>> THEN <<>>
  ELSE BigCarry([k \in 1..(Len(x) + Len(y) - 1) |->
                   Sum([i \in 1..Len(x) |->
                          IF k - i + 1 \in 1..Len(y) THEN x[i] * y[k - i + 1] ELSE 0])],
                1, 0)

BigLeq(x, y) ==
  \/ Len(x) < Len(y)
  \/ /\ Len(x) = Len(y)
     /\ \/ x = y
        \/ \E k \in 1..Len(x) : x[k] < y[k] /\ \A j \in (k+1)..Len(x) : x[j] = y[j]

(***************************************************************************)
(* server.js: AI detection                                                 *)
(***************************************************************************)
\* lengths: sentences.map(s => normalizeToWords(s).length).filter(n => n > 0)
sentenceLengths(sentences) ==
  SelectSeq([i \in 1..Len(sentences) |-> Len(normalizeToWords(sentences[i]))],
            LAMBDA n : n > 0)

SumSquares(arr) == Sum([i \in 1..Len(arr) |-> arr[i] * arr[i]])

\* mean(arr) as a rational; 0 for the empty array
mean(arr) == IF Len(arr) > 0 THEN Rat(Sum(arr), Len(arr)) ELSE RInt(0)

\* stddev(arr) < bound (bound > 0), decided on the variance:
\* sum (x - m)^2 / (n - 1) = (n * sum x^2 - (sum x)^2) / (n * (n - 1))
stddevBelow(arr, bound) ==
  LET n == Len(arr)
  IN IF n <= 1 THEN 0 < bound
     ELSE n * SumSquares(arr) - Sum(arr) * Sum(arr) < bound * bound * n * (n - 1)

\* the test without avgLen >= 12: if (avgLen <= 20 && sdLen < 6) score += 20
consistencyPointsNoFloor(lengths) ==
  IF RLeq(mean(lengths), RInt(20)) /\ stddevBelow(lengths, 6) THEN 20 ELSE 0

\* if (avgLen >= 12 && avgLen <= 20 && sdLen < 6) score += 20
consistencyPoints(lengths) ==
  IF /\ RLeq(RInt(12), mean(lengths))
     /\ RLeq(mean(lengths), RInt(20))
     /\ stddevBelow(lengths, 6)
  THEN 20 ELSE 0

\* variation = Math.max(...lengths) - Math.min(...lengths), -Infinity for no lengths
rangePoints(lengths) ==
  IF lengths = <<>> \/ SeqMax(lengths) - SeqMin(lengths) < 8 THEN 15 ELSE 0

\* uniqueRatio = new Set(words).size / words.length
uniqueRatio(words) == Rat(SetSize(words), Len(words))
uniquePoints(words) == IF RLess(uniqueRatio(words), Rat(6, 10)) THEN 15 ELSE 0

\* starters = sentences.map(s => s.split(" ")[0]?.toLowerCase())
starters(sentences) == [i \in 1..Len(sentences) |-> toLowerCase(split(sentences[i], " ")[1])]
\* starterRatio < 0.5; the ratio is NaN, and the test false, without sentences
starterPoints(sentences) ==
  IF Len(sentences) > 0 /\ 2 * SetSize(starters(sentences)) < Len(sentences) THEN 10 ELSE 0

phrases ==
  << <<"i","n"," ","c","o","n","c","l","u","s","i","o","n">>, <<"o","v","e","r","a","l","l">>, <<"f","u","r","t","h","e","r","m","o","r","e">>, <<"m","o","r","e","o","v","e","r">>,
     <<"i","t"," ","i","s"," ","i","m","p","o","r","t","a","n","t"," ","t","o"," ","n","o","t","e">>, <<"t","h","i","s"," ","h","i","g","h","l","i","g","h","t","s"," ","t","h","a","t">>,
     <<"o","n"," ","t","h","e"," ","o","t","h","e","r"," ","h","a","n","d">>, <<"a","s"," ","a"," ","r","e","s","u","l","t">>, <<"i","n"," ","s","u","m","m","a","r","y">>,
     <<"t","h","i","s"," ","d","e","m","o","n","s","t","r","a","t","e","s">>, <<"i","t"," ","c","a","n"," ","b","e"," ","o","b","s","e","r","v","e","d">>, <<"i","n"," ","a","d","d","i","t","i","o","n">> >>

\* the number of places of s where p occurs
occurrences(s, p) == Cardinality({i \in 1..Len(s) : OccursAt(s, p, i)})

\* hits counting every occurrence of every phrase
phraseOccurrences(text) ==
  LET lower == toLowerCase(text)
  IN Sum([k \in 1..Len(phrases) |-> occurrences(lower, phrases[k])])

\* phrases.forEach(p => { if (lower.includes(p)) hits++; })
phraseHits(text) ==
  LET lower == toLowerCase(text)
  IN Cardinality({i \in 1..Len(phrases) : includes(lower, phrases[i])})
phrasePoints(text) == Min(phraseHits(text) * 6, 20)

\* (text.match(/,,|!!|\?\?| {2,}/g) || []).length
\* a match lies within one run of equal characters: a run of k commas, of k
\* exclamation marks or of k question marks holds k div 2 matches, a run of two or
\* more spaces one
countErrors(text) ==
  LET runs == IndicesWhere(text, LAMBDA i :
                /\ text[i] \in {",", "!", "?", " "}
                /\ (i = 1 \/ text[i-1] # text[i]))
      len(i) == SkipWhile(text, i, {text[i]}, TRUE) - i
  IN Sum([k \in 1..Len(runs) |->
            IF text[runs[k]] = " " THEN (IF len(runs[k]) >= 2 THEN 1 ELSE 0)
            ELSE len(runs[k]) \div 2])
errorPoints(text) == IF countErrors(text) = 0 THEN 10 ELSE 0

\* freq[w]
frequency(words, w) == Cardinality({i \in 1..Len(words) : words[i] = w})
\* the largest of Object.values(freq) in place of the number of values above 4
repeatedAsMaxFrequency(words) ==
  SeqMax([i \in 1..Len(words) |-> frequency(words, words[i])])

\* repeated = Object.values(freq).filter(v => v > 4).length
repeated(words) == Cardinality({w \in {words[i] : i \in 1..Len(words)} : frequency(words, w) > 4})
\* if (repeated > words.length * 0.05) score += 10
repeatedPoints(words) == IF 20 * repeated(words) > Len(words) THEN 10 ELSE 0

\* refRatio = matches.length / words.length
refRatio(words) ==
  LET refWords == normalizeToWords(referenceText)
      refSet == {refWords[i] : i \in 1..Len(refWords)}
  IN Rat(Cardinality({i \in 1..Len(words) : words[i] \in refSet}), Len(words))
\* if (referenceText) { ... if (refRatio > 0.05) score += refRatio * 30; }
referencePoints(words) ==
  IF referenceText # <<>> /\ RLess(Rat(5, 100), refRatio(words))
  THEN RMul(refRatio(words), RInt(30)) ELSE RInt(0)

\* if (sentenceCount > 8 && avgLen > 14) score += 5
longPoints(sentences, lengths) ==
  IF Len(sentences) > 8 /\ RLess(RInt(14), mean(lengths)) THEN 5 ELSE 0

\* the value of the variable score when the function returns
rawScore(text, sentences, words) ==
  LET lengths == sentenceLengths(sentences)
  IN RAdd(RInt(consistencyPoints(lengths) + rangePoints(lengths) + uniquePoints(words)
               + starterPoints(sentences) + phrasePoints(text) + errorPoints(text)
               + repeatedPoints(words) + longPoints(sentences, lengths)),
          referencePoints(words))

\* computeAiLikelihood returning Math.round(score), without Math.min(..., 100)
computeAiLikelihoodUncapped(text, sentences, words) ==
  IF Len(words) = 0 THEN 0
  ELSE RRound(rawScore(text, sentences, words))

computeAiLikelihood(text, sentences, words) ==
  IF Len(words) = 0 THEN 0
  ELSE Min(RRound(rawScore(text, sentences, words)), 100)

\* labelAiScore with <= in place of < in both tests
labelAiScoreInclusive(pct) ==
  IF pct <= 35 THEN "Human-written"
  ELSE IF pct <= 70 THEN "Mixed (AI + Human)"
  ELSE "Likely AI-generated"

labelAiScore(pct) ==
  IF pct < 35 THEN "Human-written"
  ELSE IF pct < 70 THEN "Mixed (AI + Human)"
  ELSE "Likely AI-generated"

\* analyzeSentences leaving out the sentences without words
analyzeSentencesWithWords(text) ==
  LET rawSentences == SelectSeq(splitSentencesWithPosition(text),
                                LAMBDA s : normalizeToWords(s.text) # <<>>)
  IN [i \in 1..Len(rawSentences) |->
        LET s == rawSentences[i]
            words == normalizeToWords(s.text)
            score == computeAiLikelihood(s.text, <<s.text>>, words)
        IN [text |-> s.text, start |-> s.start, end |-> s.end,
            score |-> score, label |-> labelAiScore(score)]]

\* analyzeSentences scoring each sentence with the words of the whole text
analyzeSentencesDocumentWords(text) ==
  LET rawSentences == splitSentencesWithPosition(text)
      words == normalizeToWords(text)
  IN [i \in 1..Len(rawSentences) |->
        LET s == rawSentences[i]
            score == computeAiLikelihood(s.text, <<s.text>>, words)
        IN [text |-> s.text, start |-> s.start, end |-> s.end,
            score |-> score, label |-> labelAiScore(score)]]

analyzeSentences(text) ==
  LET rawSentences == splitSentencesWithPosition(text)
  IN [i \in 1..Len(rawSentences) |->
        LET s == rawSentences[i]
            words == normalizeToWords(s.text)
            score == computeAiLikelihood(s.text, <<s.text>>, words)
        IN [text |-> s.text, start |-> s.start, end |-> s.end,
            score |-> score, label |-> labelAiScore(score)]]

\* POST /analyze with req.body.text: the object given to res.json
analyzeResponse(text) ==
  LET words == normalizeToWords(text)
      split_ == splitSentencesWithPosition(text)
      aiScore == computeAiLikelihood(text, [i \in 1..Len(split_) |-> split_[i].text], words)
      highlights == analyzeSentences(text)
  IN [fileName |-> <<>>,
      wordCount |-> Len(words),
      sentenceCount |-> Len(highlights),
      aiLikelihood |-> aiScore,
      aiLabel |-> labelAiScore(aiScore),
      preview |-> slice(text, 0, Min(300, Len(text))),
      highlights |-> highlights]

(***************************************************************************)
(* part_001: regular-expression helpers                                    *)
(***************************************************************************)
\* \b holds between s[i-1] and s[i], s[i] being a word character
BoundaryBefore(s, i) == i = 1 \/ ~IsWordChar(s[i-1])
\* \b holds between s[j] and s[j+1], s[j] being a word character
BoundaryAfter(s, j) == j = Len(s) \/ ~IsWordChar(s[j+1])

\* a match of \bw\b starts at index i (w begins and ends with a word character)
WordAt(s, w, i) ==
  OccursAt(s, w, i) /\ BoundaryBefore(s, i) /\ BoundaryAfter(s, i + Len(w) - 1)

\* (s.match(new RegExp('\\b' + w + '\\b', 'g')) || []).length: two matches of
\* one such word cannot overlap
countWord(s, w) == Cardinality({i \in 1..Len(s) : WordAt(s, w, i)})

\* the sum over the list, an entry listed twice counted twice
countWords(s, list) == Sum([k \in 1..Len(list) |-> countWord(s, list[k])])

\* /\b(w1|w2|...)\b/.test(s)
hasWord(s, list) == \E k \in 1..Len(list) : \E i \in 1..Len(s) : WordAt(s, list[k], i)

\* (s.match(/[class]/g) || []).length
countChars(s, class) == Cardinality({i \in 1..Len(s) : s[i] \in class})

(***************************************************************************)
(* part_001: similarity and AI likelihood                                  *)
(***************************************************************************)
\* computeSimilarityPercentage counting each common word once, whatever the
\* number of its occurrences in inputWords
computeSimilarityDistinct(inputWords, referenceWords) ==
  IF Len(inputWords) = 0 THEN RInt(0)
  ELSE LET refSet == {referenceWords[i] : i \in 1..Len(referenceWords)}
           common == Cardinality({inputWords[i] : i \in 1..Len(inputWords)} \cap refSet)
       IN RMul(Rat(common, Len(inputWords)), RInt(100))

\* (common / inputWords.length) * 100, a rational
computeSimilarityPercentage(inputWords, referenceWords) ==
  IF Len(inputWords) = 0 THEN RInt(0)
  ELSE LET refSet == {referenceWords[i] : i \in 1..Len(referenceWords)}
           common == Cardinality({i \in 1..Len(inputWords) : inputWords[i] \in refSet})
       IN RMul(Rat(common, Len(inputWords)), RInt(100))

\* the variance of stddev(values): sum (x - m)^2 / (n - 1), 0 for n <= 1
sampleVariance(values) ==
  LET n == Len(values)
  IN IF n <= 1 THEN RInt(0)
     ELSE Rat(n * SumSquares(values) - Sum(values) * Sum(values), n * (n - 1))

\* a - b * Math.sqrt(u) >= h, for rationals a, h and b >= 0, u >= 0, decided by
\* squaring: a - h >= 0 and b^2 * u <= (a - h)^2
AtLeast(a, b, u, h) ==
  LET dlt == RSub(a, h)
      bbu == RMul(RMul(b, b), u)
  IN /\ dlt.n >= 0
     /\ BigLeq(BigMul(BigOf(bbu.n), BigMul(BigOf(dlt.d), BigOf(dlt.d))),
               BigMul(BigOf(bbu.d), BigMul(BigOf(dlt.n), BigOf(dlt.n))))
\* Math.round(a - b * Math.sqrt(u)): the integer k with k - 1/2 <= a - b*sqrt(u) < k + 1/2
roundMinusSqrt(a, b, u) ==
  LET lo == RFloor(RSub(a, RMul(b, RAdd(u, RInt(1))))) - 1
      hi == RCeil(a) + 1
  IN CHOOSE k \in lo..hi :
       /\ AtLeast(a, b, u, Rat(2 * k - 1, 2))
       /\ ~AtLeast(a, b, u, Rat(2 * k + 1, 2))

formalWordsAi ==
  << <<"m","o","r","e","o","v","e","r">>, <<"f","u","r","t","h","e","r","m","o","r","e">>, <<"t","h","e","r","e","f","o","r","e">>, <<"h","o","w","e","v","e","r">>, <<"h","e","n","c","e">>, <<"t","h","u","s">>,
     <<"c","o","n","s","e","q","u","e","n","t","l","y">>, <<"i","n"," ","c","o","n","c","l","u","s","i","o","n">>, <<"w","h","e","r","e","a","s">>, <<"a","d","d","i","t","i","o","n","a","l","l","y">> >>

sentenceLengthsClient(sentences) ==
  SelectSeq([i \in 1..Len(sentences) |-> Len(normalizeToWordsClient(sentences[i]))],
            LAMBDA n : n > 0)

\* formalScore = Math.min(1, formalCount / Math.max(1, sentenceLengths.length * 0.3))
formalScoreAi(text, lengths) ==
  RMin(RInt(1), RMul(RInt(countWords(toLowerCase(text), formalWordsAi)),
                     IF 3 * Len(lengths) > 10 THEN Rat(10, 3 * Len(lengths)) ELSE RInt(1)))

\* repetitionScore = Math.min(1, (1 - vocabRatio) * factor)
repetitionScore(words, factor) ==
  RMin(RInt(1), RMul(RSub(RInt(1), Rat(SetSize(words), Max(1, Len(words)))), factor))

\* punctuationScore = count of [!?.] / Math.max(1, text.split(' ').length)
punctuationScoreAi(text) == Rat(countChars(text, Terminators), Max(1, Len(split(text, " "))))

\* aiScore * 100 is a - 45 * sqrt(u): consistency = 1 - Math.min(1, sd / (avg + 1)),
\* sd / (avg + 1) = sqrt(u), for avg > 0; the other three terms are rational
aiScoreRest(text, lengths, words) ==
  RAdd(RAdd(RMul(formalScoreAi(text, lengths), RInt(30)),
            RMul(repetitionScore(words, Rat(3, 2)), RInt(20))),
       RMul(punctuationScoreAi(text), RInt(5)))
sdRatioSquared(lengths) ==
  LET avg1 == RAdd(mean(lengths), RInt(1))
  IN RMul(sampleVariance(lengths), Rat(avg1.d * avg1.d, avg1.n * avg1.n))
\* Math.round(aiScore * 100) before the clamp to [0, 1]
roundedAiScore(text, sentences, words) ==
  LET lengths == sentenceLengthsClient(sentences)
      rest == aiScoreRest(text, lengths, words)
  IN IF Len(lengths) = 0 \/ RLeq(RInt(1), sdRatioSquared(lengths))
     THEN RRound(rest)                                   \* consistency = 0
     ELSE roundMinusSqrt(RAdd(RInt(45), rest), RInt(45), sdRatioSquared(lengths))

\* part_001 computeAiLikelihood without its first line, the return of 0 for no words
computeAiLikelihoodClientUnguarded(text, sentences, words) ==
  Max(0, Min(100, roundedAiScore(text, sentences, words)))

\* part_001 computeAiLikelihood
computeAiLikelihoodClient(text, sentences, words) ==
  IF Len(words) = 0 THEN 0
  ELSE Max(0, Min(100, roundedAiScore(text, sentences, words)))

\* part_001 labelAiScore
labelAiScoreClient(pct) ==
  IF pct <= 30 THEN "Human-written"
  ELSE IF pct <= 60 THEN "Mixed"
  ELSE "Likely AI-generated"

\* punctuationScore = 1 - Math.min(1, punctuationCount / Math.max(1, Math.ceil(words.length / 8)))
punctuationScoreSentence(text, words) ==
  RSub(RInt(1), RMin(RInt(1), Rat(countChars(text, Terminators),
                                  Max(1, RCeil(Rat(Len(words), 8))))))

computeSentenceAiScore(sentence) ==
  LET text == trim(sentence)
      words == normalizeToWordsClient(text)
      formalScore == RMin(RInt(1), Rat(countWords(toLowerCase(text), formalWordsAi), 2))
      score == RAdd(RAdd(RMul(formalScore, Rat(35, 100)),
                         RMul(repetitionScore(words, Rat(18, 10)), Rat(35, 100))),
                    RMul(punctuationScoreSentence(text, words), Rat(30, 100)))
  IN IF Len(words) = 0 THEN 0
     ELSE RRound(RMul(RMax(RInt(0), RMin(RInt(1), score)), RInt(100)))

(***************************************************************************)
(* part_001: subject classifier                                            *)
(***************************************************************************)
\* Pattern elements besides literal characters.  Inside a JS string literal \b is
\* the backspace BS, \. is the dot (the regex wildcard) and \s is the letter s
\* (so \s+ is the regex s+).
AnyChar == "<.>"
PlusS == "<s+>"

\* the index after a match of pat[k..] at s[i..], 0 if there is none; s+ is always
\* followed by a literal other than s, so its greedy match never backtracks
RECURSIVE matchEnd(_, _, _, _)
matchEnd(s, i, pat, k) ==
  IF k > Len(pat) THEN i
  ELSE IF i > Len(s) THEN 0
  ELSE IF pat[k] = AnyChar
       THEN (IF s[i] \in {"\n", "\r"} THEN 0 ELSE matchEnd(s, i + 1, pat, k + 1))
  ELSE IF pat[k] = PlusS
       THEN (IF s[i] # "s" THEN 0 ELSE matchEnd(s, SkipWhile(s, i, {"s"}, TRUE), pat, k + 1))
  ELSE IF s[i] = pat[k] THEN matchEnd(s, i + 1, pat, k + 1)
  ELSE 0

\* (s.match(new RegExp(p, 'g')) || []).length
\* the matches are taken left to right and do not overlap; starts holds the
\* indices at which the pattern matches, k is the next of them to look at
RECURSIVE countFrom(_, _, _, _, _)
countFrom(s, pat, starts, k, from) ==
  IF k > Len(starts) THEN 0
  ELSE IF starts[k] < from THEN countFrom(s, pat, starts, k + 1, from)
  ELSE 1 + countFrom(s, pat, starts, k + 1, matchEnd(s, starts[k], pat, 1))
countMatches(s, pat) ==
  countFrom(s, pat, IndicesWhere(s, LAMBDA i : matchEnd(s, i, pat, 1) # 0), 1, 1)

subjectMap ==
  <<
     [subject |-> "Programming",
      patterns |-> << <<BS,"f","u","n","c","t","i","o","n",BS>>,
                     <<BS,"d","e","f",BS>>,
                     <<BS,"c","l","a","s","s",BS>>,
                     <<BS,"c","o","n","s","o","l","e",AnyChar,"l","o","g",BS>>,
                     <<BS,"S","y","s","t","e","m",AnyChar,"o","u","t",BS>>,
                     <<"#","i","n","c","l","u","d","e">>,
                     <<BS,"i","m","p","o","r","t",BS>>,
                     <<BS,"p","u","b","l","i","c",BS>>,
                     <<BS,"p","r","i","v","a","t","e",BS>>,
                     <<BS,"v","a","r",BS>>,
                     <<BS,"l","e","t",BS>>,
                     <<BS,"c","o","n","s","t",BS>> >>],
     [subject |-> "Data Structures",
      patterns |-> << <<BS,"s","t","a","c","k",BS>>,
                     <<BS,"q","u","e","u","e",BS>>,
                     <<BS,"l","i","n","k","e","d"," ","l","i","s","t",BS>>,
                     <<BS,"b","i","n","a","r","y"," ","t","r","e","e",BS>>,
                     <<BS,"h","a","s","h"," ","t","a","b","l","e",BS>>,
                     <<BS,"g","r","a","p","h",BS>>,
                     <<BS,"d","f","s",BS>>,
                     <<BS,"b","f","s",BS>> >>],
     [subject |-> "Algorithms",
      patterns |-> << <<BS,"s","o","r","t",BS>>,
                     <<BS,"s","e","a","r","c","h",BS>>,
                     <<BS,"d","y","n","a","m","i","c"," ","p","r","o","g","r","a","m","m","i","n","g",BS>>,
                     <<BS,"g","r","e","e","d","y",BS>>,
                     <<BS,"b","i","n","a","r","y"," ","s","e","a","r","c","h",BS>>,
                     <<BS,"m","e","r","g","e"," ","s","o","r","t",BS>>,
                     <<BS,"q","u","i","c","k"," ","s","o","r","t",BS>> >>],
     [subject |-> "Databases",
      patterns |-> << <<BS,"s","e","l","e","c","t",BS>>,
                     <<BS,"i","n","s","e","r","t",BS>>,
                     <<BS,"u","p","d","a","t","e",BS>>,
                     <<BS,"d","e","l","e","t","e",BS>>,
                     <<BS,"f","r","o","m",BS>>,
                     <<BS,"w","h","e","r","e",BS>>,
                     <<BS,"j","o","i","n",BS>>,
                     <<BS,"s","q","l",BS>>,
                     <<BS,"n","o","s","q","l",BS>> >>],
     [subject |-> "Operating Systems",
      patterns |-> << <<BS,"p","r","o","c","e","s","s",BS>>,
                     <<BS,"t","h","r","e","a","d",BS>>,
                     <<BS,"s","c","h","e","d","u","l","e","r",BS>>,
                     <<BS,"k","e","r","n","e","l",BS>>,
                     <<BS,"m","u","t","e","x",BS>>,
                     <<BS,"d","e","a","d","l","o","c","k",BS>> >>],
     [subject |-> "Networks",
      patterns |-> << <<BS,"p","r","o","t","o","c","o","l",BS>>,
                     <<BS,"t","c","p",BS>>,
                     <<BS,"u","d","p",BS>>,
                     <<BS,"i","p",BS>>,
                     <<BS,"r","o","u","t","i","n","g",BS>>,
                     <<BS,"l","a","y","e","r",BS>> >>],
     [subject |-> "Software Engineering",
      patterns |-> << <<BS,"u","m","l",BS>>,
                     <<BS,"r","e","q","u","i","r","e","m","e","n","t","s",BS>>,
                     <<BS,"t","e","s","t","i","n","g",BS>>,
                     <<BS,"v","e","r","s","i","o","n"," ","c","o","n","t","r","o","l",BS>>,
                     <<BS,"a","g","i","l","e",BS>>,
                     <<BS,"w","a","t","e","r","f","a","l","l",BS>> >>],
     [subject |-> "Web Development",
      patterns |-> << <<"<","h","t","m","l">>,
                     <<"<","b","o","d","y">>,
                     <<"<","s","c","r","i","p","t">>,
                     <<"c","s","s">>,
                     <<BS,"h","t","t","p",BS>>,
                     <<BS,"h","t","m","l",BS>>,
                     <<BS,"c","s","s",BS>>,
                     <<BS,"j","a","v","a","s","c","r","i","p","t",BS>> >>],
     [subject |-> "AI/ML",
      patterns |-> << <<BS,"m","a","c","h","i","n","e"," ","l","e","a","r","n","i","n","g",BS>>,
                     <<BS,"n","e","u","r","a","l"," ","n","e","t","w","o","r","k",BS>>,
                     <<BS,"d","e","e","p"," ","l","e","a","r","n","i","n","g",BS>>,
                     <<BS,"c","l","a","s","s","i","f","i","c","a","t","i","o","n",BS>>,
                     <<BS,"r","e","g","r","e","s","s","i","o","n",BS>>,
                     <<BS,"s","v","m",BS>>,
                     <<BS,"p","y","t","h","o","n",BS,PlusS,"i","m","p","o","r","t",PlusS,"t","e","n","s","o","r","f","l","o","w">> >>],
     [subject |-> "Cybersecurity",
      patterns |-> << <<BS,"e","n","c","r","y","p","t","i","o","n",BS>>,
                     <<BS,"s","s","l",BS>>,
                     <<BS,"t","l","s",BS>>,
                     <<BS,"a","t","t","a","c","k",BS>>,
                     <<BS,"v","u","l","n","e","r","a","b","i","l","i","t","y",BS>>,
                     <<BS,"c","r","y","p","t",BS>> >>],
     [subject |-> "Computer Architecture",
      patterns |-> << <<BS,"c","a","c","h","e",BS>>,
                     <<BS,"i","n","s","t","r","u","c","t","i","o","n",BS>>,
                     <<BS,"p","i","p","e","l","i","n","e",BS>>,
                     <<BS,"r","e","g","i","s","t","e","r",BS>>,
                     <<BS,"a","l","u",BS>> >>]
  >>

\* count of the loop over [subject, patterns]
subjectCount(lowered, k) ==
  Sum([p \in 1..Len(subjectMap[k].patterns) |-> countMatches(lowered, subjectMap[k].patterns[p])])

\* the sort with a[1] - b[1] in place of b[1] - a[1]: ascending counts
RECURSIVE sortedAscending(_, _)
sortedAscending(counts, todo) ==
  IF todo = {} THEN <<>>
  ELSE LET best == CHOOSE k \in todo :
                     \A j \in todo : counts[k] < counts[j] \/ (counts[k] = counts[j] /\ k <= j)
       IN <<best>> \o sortedAscending(counts, todo \ {best})

\* the indices of arr's positive entries by descending value, equal values in
\* index order (Array.prototype.sort is stable)
RECURSIVE sortedByCount(_, _)
sortedByCount(counts, todo) ==
  IF todo = {} THEN <<>>
  ELSE LET best == CHOOSE k \in todo :
                     \A j \in todo : counts[k] > counts[j] \/ (counts[k] = counts[j] /\ k <= j)
       IN <<best>> \o sortedByCount(counts, todo \ {best})

detectSubjects(text) ==
  LET lowered == toLowerCase(text)
      counts == [k \in 1..Len(subjectMap) |-> subjectCount(lowered, k)]
      sorted == sortedByCount(counts, {k \in 1..Len(subjectMap) : counts[k] > 0})
      names == [i \in 1..Len(sorted) |-> subjectMap[sorted[i]].subject]
  IN IF Len(names) > 0 THEN SubSeq(names, 1, Min(3, Len(names))) ELSE <<"General">>

(***************************************************************************)
(* part_001: content-quality mark                                          *)
(***************************************************************************)
\* rec.name used as a number with no default: NaN for a field the record lacks
FieldUnguarded(rec, name, dflt) ==
  IF name \in DOMAIN rec THEN RInt(rec[name]) ELSE NaN

\* rec.name || dflt for a numeric field that the record may lack
FieldOr(rec, name, dflt) ==
  IF name \in DOMAIN rec /\ rec[name] # 0 THEN RInt(rec[name]) ELSE RInt(dflt)

\* text.split(/\n\n+/): the pieces between runs of two or more newlines
splitParagraphs(s) ==
  LET from == IndicesWhere(s, LAMBDA i :
                /\ s[i] = "\n" /\ (i = 1 \/ s[i-1] # "\n")
                /\ i < Len(s) /\ s[i+1] = "\n")
      to == [k \in 1..Len(from) |-> SkipWhile(s, from[k], {"\n"}, TRUE) - 1]
  IN PiecesBetween(s, from, to)

\* text.split(/\n\n+/).filter(p => p.trim().length > 0).length
paragraphCount(text) ==
  Len(SelectSeq(splitParagraphs(text), LAMBDA p : trim(p) # <<>>))

\* n^2 times the population variance of arr: n * sum x^2 - (sum x)^2
scaledVariance(arr) == Len(arr) * SumSquares(arr) - Sum(arr) * Sum(arr)

\* Math.sqrt(variance) > num/den for the population variance of a non-empty arr;
\* for the empty array the variance is NaN and every comparison false
stdDevAbove(arr, num, den) ==
  Len(arr) > 0 /\ den * den * scaledVariance(arr) > num * num * Len(arr) * Len(arr)
stdDevBelow(arr, num, den) ==
  Len(arr) > 0 /\ den * den * scaledVariance(arr) < num * num * Len(arr) * Len(arr)

computeStructureScore(fileData) ==
  LET sentences == fileData.sentencesWithDelimiters
      paragraphs == Max(1, paragraphCount(fileData.text))
      avgSentencesPerPara == Rat(Len(sentences), paragraphs)
      paraStructureScore ==
        IF RLeq(RInt(2), avgSentencesPerPara) /\ RLeq(avgSentencesPerPara, RInt(6)) THEN 80
        ELSE IF RLess(RInt(0), avgSentencesPerPara) THEN 50 ELSE 20
      lengths == [i \in 1..Len(sentences) |-> Len(normalizeToWordsClient(sentences[i]))]
      varietyScore ==
        IF stdDevAbove(lengths, 3, 1) THEN 90
        ELSE IF stdDevAbove(lengths, 3, 2) THEN 70 ELSE 40
  IN Rat(paraStructureScore * 4 + varietyScore * 6, 10)

computeClarityScore(fileData) ==
  LET sentences == fileData.sentencesWithDelimiters
      sentenceScores == fileData.sentenceScores
      words == normalizeToWordsClient(fileData.text)
      avgWordPerSentence ==
        IF Len(sentences) > 0 THEN Rat(Len(words), Len(sentences)) ELSE RInt(0)
      lengthScore ==
        IF RLess(RInt(8), avgWordPerSentence) /\ RLess(avgWordPerSentence, RInt(30)) THEN 80
        ELSE IF RLess(RInt(5), avgWordPerSentence) THEN 60 ELSE 30
      coherenceScore ==
        IF stdDevBelow(sentenceScores, 20, 1) THEN 85
        ELSE IF stdDevBelow(sentenceScores, 40, 1) THEN 70 ELSE 50
  IN IF Len(sentenceScores) > 1
     THEN Rat(lengthScore * 4 + coherenceScore * 6, 10)
     ELSE RInt(lengthScore)

formalWordsLanguage ==
  << <<"m","o","r","e","o","v","e","r">>, <<"f","u","r","t","h","e","r","m","o","r","e">>, <<"t","h","e","r","e","f","o","r","e">>, <<"h","o","w","e","v","e","r">>, <<"t","h","u","s">>,
     <<"c","o","n","s","e","q","u","e","n","t","l","y">>, <<"a","d","d","i","t","i","o","n","a","l","l","y">>, <<"n","e","v","e","r","t","h","e","l","e","s","s">>, <<"i","n","d","e","e","d">>, <<"m","e","a","n","w","h","i","l","e">> >>

\* the class of line 201: ! ? ; : the em dash and the hyphen
EmDash == "<em-dash>"   \* U+2014
PunctuationVariety == {"!", "?", ";", ":", EmDash, "-"}

computeLanguageQuality(fileData) ==
  LET words == normalizeToWordsClient(fileData.text)
      vocabDiversity == RMul(Rat(SetSize(words), Max(1, Len(words))), RInt(100))
      diversityScore ==
        IF RLess(RInt(35), vocabDiversity) /\ RLess(vocabDiversity, RInt(75)) THEN 90
        ELSE IF RLess(RInt(20), vocabDiversity) THEN 70 ELSE 40
      formalCount == countWords(toLowerCase(fileData.text), formalWordsLanguage)
      \* (formalCount / Math.max(1, fileData.sentenceCount || 1)) * 30 * 100 / 30
      formalScore ==
        RMin(RInt(100),
             RMul(RDiv(RInt(formalCount), RMax(RInt(1), FieldOr(fileData, "sentenceCount", 1))),
                  RInt(100)))
      punctuation == countChars(fileData.text, PunctuationVariety)
      punctScore == RMin(RInt(100), RMul(Rat(punctuation, Max(1, Len(words))), RInt(300)))
  IN RAdd(RAdd(RMul(RInt(diversityScore), Rat(4, 10)), RMul(formalScore, Rat(3, 10))),
          RMul(punctScore, Rat(3, 10)))

computeContentDepth(fileData) ==
  LET words == FieldOr(fileData, "wordCount", 0)
      sentences == FieldOr(fileData, "sentenceCount", 0)
      charCount == FieldOr(fileData, "charCount", 0)
      lengthScore ==
        IF RLess(words, RInt(50)) THEN 20
        ELSE IF RLess(words, RInt(150)) THEN 40
        ELSE IF RLess(words, RInt(300)) THEN 60
        ELSE IF RLess(words, RInt(1000)) THEN 80
        ELSE 95
      avgCharPerWord == IF RLess(RInt(0), words) THEN RDiv(charCount, words) ELSE RInt(0)
      densityScore ==
        IF RLess(Rat(35, 10), avgCharPerWord) /\ RLess(avgCharPerWord, RInt(7)) THEN 85
        ELSE IF RLess(RInt(3), avgCharPerWord) THEN 70 ELSE 50
      sentenceDepth ==
        RMin(RInt(100), RMul(RDiv(sentences, RMax(RInt(1), words)), RInt(2000)))
  IN RAdd(Rat(lengthScore * 5 + densityScore * 3, 10), RMul(sentenceDepth, Rat(2, 10)))

\* parseInt of a run of decimal digits
RECURSIVE parseDigits(_, _, _)
parseDigits(s, i, acc) ==
  IF i > Len(s) \/ s[i] \notin Digits THEN acc
  ELSE parseDigits(s, i + 1, 10 * acc + (CHOOSE v \in 0..9 : ToString(v) = s[i]))

\* the sum of parseInt over the matches of /\((\d+)\)/g
sumParenthesized(s) ==
  LET opens == IndicesWhere(s, LAMBDA i :
                 /\ s[i] = "(" /\ i < Len(s) /\ s[i+1] \in Digits
                 /\ LET e == SkipWhile(s, i + 1, Digits, TRUE) IN e <= Len(s) /\ s[e] = ")")
  IN Sum([k \in 1..Len(opens) |-> parseDigits(s, opens[k] + 1, 0)])

computeOriginality(fileData) ==
  LET words == normalizeToWordsClient(fileData.text)
      totalRepetition == sumParenthesized(fileData.topRepeatedWords)
      repetitionRate == RMul(Rat(totalRepetition, Max(1, Len(words))), RInt(100))
      repetitionScore_ == RMax(RInt(20), RSub(RInt(100), RMul(repetitionRate, RInt(2))))
      uniqueRatio_ == RMul(Rat(SetSize(words), Max(1, Len(words))), RInt(100))
      uniquenessScore ==
        IF RLess(RInt(40), uniqueRatio_) THEN 90
        ELSE IF RLess(RInt(25), uniqueRatio_) THEN 70 ELSE 40
  IN RAdd(RMul(repetitionScore_, Rat(5, 10)), RMul(RInt(uniquenessScore), Rat(5, 10)))

\* text.match(/[^.!?]+[.!?]/g): a run of non-terminators and the terminator after it
RECURSIVE matchTerminated(_, _, _)
matchTerminated(text, from, acc) ==
  LET i == SkipWhile(text, from, Terminators, TRUE)
      j == SkipWhile(text, i, Terminators, FALSE)
  IN IF j > Len(text) THEN acc
     ELSE matchTerminated(text, j + 1, Append(acc, SubSeq(text, i, j)))

\* the matches of /\b[A-Z][a-z]{least,}\b/g in s: a capital at a word boundary, then
\* the whole run of lower-case letters after it, which must end at a word boundary
capitalizedStarts(s, least) ==
  {i \in 1..Len(s) :
     /\ s[i] \in UpperLetters
     /\ BoundaryBefore(s, i)
     /\ LET e == SkipWhile(s, i + 1, LowerLetters, TRUE)
        IN e - (i + 1) >= least /\ BoundaryAfter(s, e - 1)}

\* (text.match(/\d+/g) || []).length: the maximal runs of digits
countNumbers(text) ==
  Cardinality({i \in 1..Len(text) : text[i] \in Digits /\ (i = 1 \/ text[i-1] \notin Digits)})

computeRelevance(fileData) ==
  LET text == fileData.text
      sentences == matchTerminated(text, 1, <<>>)
      properNouns ==
        Sum([i \in 1..Len(sentences) |->
               Max(0, Cardinality(capitalizedStarts(trim(sentences[i]), 1)) - 1)])
      properNounScore == Min(90, Max(40, properNouns * 3))
      numberScore == Min(85, countNumbers(text) * 2)
      questionScore == IF countChars(text, {"?"}) > 0 THEN 70 ELSE 50
  IN Rat(properNounScore * 4 + numberScore * 3 + questionScore * 3, 10)

\* 'however' is listed twice
transitionWords ==
  << <<"m","o","r","e","o","v","e","r">>, <<"h","o","w","e","v","e","r">>, <<"t","h","e","r","e","f","o","r","e">>, <<"m","e","a","n","w","h","i","l","e">>, <<"f","u","r","t","h","e","r","m","o","r","e">>,
     <<"a","d","d","i","t","i","o","n","a","l","l","y">>, <<"h","o","w","e","v","e","r">>, <<"t","h","u","s">>, <<"h","e","n","c","e">>, <<"c","o","n","s","e","q","u","e","n","t","l","y">>, <<"n","e","v","e","r","t","h","e","l","e","s","s">> >>

computeConsistency(fileData) ==
  LET sentences == fileData.sentencesWithDelimiters
      text == fileData.text
      transitionCount == countWords(toLowerCase(text), transitionWords)
      transitionScore == IF transitionCount > 0 THEN Min(90, 50 + transitionCount * 10) ELSE 50
      lengths == [i \in 1..Len(sentences) |-> Len(normalizeToWordsClient(sentences[i]))]
      \* for (let i = 1; ...): at i = 1 lengths[i-2] is undefined and both tests are false
      patternChanges ==
        Cardinality({i \in 3..Len(lengths) :
                       \/ lengths[i] > lengths[i-1] /\ lengths[i-1] > lengths[i-2]
                       \/ lengths[i] < lengths[i-1] /\ lengths[i-1] < lengths[i-2]})
      flowScore == IF Len(sentences) > 3 THEN Min(95, 50 + patternChanges * 8) ELSE 50
      paragraphs == paragraphCount(text)
      coherenceScore == IF paragraphs > 1 THEN Min(90, 60 + paragraphs * 3) ELSE 50
  IN Rat(transitionScore * 4 + flowScore * 3 + coherenceScore * 3, 10)

\* finalScore of computeAiContentScore
finalScore(fileData) ==
  RAdd(RAdd(RAdd(RMul(computeStructureScore(fileData), Rat(20, 100)),
                 RMul(computeClarityScore(fileData), Rat(20, 100))),
            RAdd(RMul(computeLanguageQuality(fileData), Rat(15, 100)),
                 RMul(computeContentDepth(fileData), Rat(15, 100)))),
       RAdd(RAdd(RMul(computeOriginality(fileData), Rat(10, 100)),
                 RMul(computeRelevance(fileData), Rat(10, 100))),
            RMul(computeConsistency(fileData), Rat(10, 100))))

\* computeAiContentScore without if (words.length === 0) return 0
computeAiContentScoreUnguarded(fileData) ==
  MathRound(RMax(RInt(0), RMin(RInt(100), finalScore(fileData))))

\* the number returned: an integer k is k/1
computeAiContentScore(fileData) ==
  IF Len(normalizeToWordsClient(fileData.text)) = 0 THEN RInt(0)
  ELSE MathRound(RMax(RInt(0), RMin(RInt(100), finalScore(fileData))))

(***************************************************************************)
(* part_001: sentence signals and highlight selection                      *)
(***************************************************************************)
genericPhrases ==
  << <<"i","n"," ","c","o","n","c","l","u","s","i","o","n">>, <<"o","v","e","r","a","l","l">>, <<"t","h","i","s"," ","p","a","p","e","r">>, <<"t","h","i","s"," ","d","o","c","u","m","e","n","t">>,
     <<"t","h","i","s"," ","s","t","u","d","y">>, <<"t","h","e"," ","p","u","r","p","o","s","e"," ","o","f">> >>
templateOpenings ==
  << <<"f","i","r","s","t">>, <<"s","e","c","o","n","d">>, <<"t","h","i","r","d">>, <<"f","i","n","a","l","l","y">>, <<"i","n"," ","t","h","e"," ","f","i","r","s","t">>, <<"i","n"," ","t","h","e"," ","s","e","c","o","n","d">> >>
romanNumerals == << <<"i">>, <<"i","i">>, <<"i","i","i">> >>
transitionSignals ==
  << <<"m","o","r","e","o","v","e","r">>, <<"f","u","r","t","h","e","r","m","o","r","e">>, <<"t","h","e","r","e","f","o","r","e">>, <<"h","o","w","e","v","e","r">>, <<"t","h","u","s">>,
     <<"c","o","n","s","e","q","u","e","n","t","l","y">>, <<"a","d","d","i","t","i","o","n","a","l","l","y">> >>
vagueWords ==
  << <<"s","o","m","e">>, <<"m","a","n","y">>, <<"v","a","r","i","o","u","s">>, <<"s","e","v","e","r","a","l">>, <<"o","f","t","e","n">>, <<"g","e","n","e","r","a","l","l","y">>,
     <<"t","y","p","i","c","a","l","l","y">>, <<"m","a","y">>, <<"m","i","g","h","t">>, <<"c","o","u","l","d">> >>
pronouns == << <<"i">>, <<"w","e">>, <<"m","y">>, <<"o","u","r">>, <<"u","s">>, <<"m","i","n","e">> >>

\* /^\s*(first|second|...)\b/i on t
templateOpening(t) ==
  LET low == toLowerCase(t)
      i == SkipWhile(low, 1, Spaces, TRUE)
  IN \E k \in 1..Len(templateOpenings) :
       /\ OccursAt(low, templateOpenings[k], i)
       /\ BoundaryAfter(low, i + Len(templateOpenings[k]) - 1)

\* /\b\d+\./ on t: a run of digits that starts at a word boundary and is followed by a dot
numberedItem(t) ==
  \E i \in 1..Len(t) :
    /\ t[i] \in Digits
    /\ BoundaryBefore(t, i)
    /\ LET e == SkipWhile(t, i, Digits, TRUE) IN e <= Len(t) /\ t[e] = "."

\* /\bis\s+\w+ed\b|\bwas\s+\w+ed\b/ on low: the verb at a word boundary, whitespace,
\* then a run of word characters of length >= 3 that ends in "ed"
passiveAfter(low, verb) ==
  \E i \in 1..Len(low) :
    /\ OccursAt(low, verb, i)
    /\ BoundaryBefore(low, i)
    /\ LET ws == i + Len(verb)
           w == SkipWhile(low, ws, Spaces, TRUE)
           e == SkipWhile(low, w, UpperLetters \cup LowerLetters \cup Digits \cup {"_"}, TRUE)
       IN w > ws /\ e - w >= 3 /\ low[e-2] = "e" /\ low[e-1] = "d"

analyzeSentenceSignals(s) ==
  LET t == trim(s)
      low == toLowerCase(t)
      words == normalizeToWordsClient(t)
      signals ==
        [generic |-> hasWord(low, genericPhrases),
         template |-> templateOpening(t) \/ numberedItem(t) \/ hasWord(low, romanNumerals),
         transition |-> hasWord(low, transitionSignals),
         repetitive |-> \E i \in 1..Len(words) : frequency(words, words[i]) >= 3,
         vague |-> hasWord(low, vagueWords),
         mechanical |-> ~hasWord(low, pronouns) /\ Len(words) > 6,
         passive |-> passiveAfter(low, <<"i","s">>) \/ passiveAfter(low, <<"w","a","s">>),
         nonspecific |-> /\ countChars(t, Digits) = 0
                         /\ capitalizedStarts(t, 2) = {}
                         /\ Len(words) > 6]
  IN [signals |-> signals,
      count |-> Cardinality({f \in DOMAIN signals : signals[f]})]

\* candidates: the sentences with >= 3 signals, as {i, count, len}, i 0-based
highlightCandidates(sentences) ==
  SelectSeq([k \in 1..Len(sentences) |->
               [i |-> k - 1, count |-> analyzeSentenceSignals(sentences[k]).count,
                len |-> Len(sentences[k])]],
            LAMBDA c : c.count >= 3)

\* candidates.sort((a,b) => b.count - a.count || a.len - b.len); the sort is stable
RECURSIVE sortCandidates(_, _)
sortCandidates(cands, todo) ==
  IF todo = {} THEN <<>>
  ELSE LET Before(a, b) ==
             \/ cands[a].count > cands[b].count
             \/ cands[a].count = cands[b].count /\ cands[a].len < cands[b].len
             \/ cands[a].count = cands[b].count /\ cands[a].len = cands[b].len /\ a <= b
           first == CHOOSE a \in todo : \A b \in todo : Before(a, b)
       IN <<cands[first]>> \o sortCandidates(cands, todo \ {first})

\* cap = Math.floor(totalLen * 0.30)
highlightCap(totalLen) == (3 * totalLen) \div 10

\* the loop with the test sum <= cap in place of sum + c.len <= cap
RECURSIVE acceptCandidatesUnderCap(_, _, _, _, _)
acceptCandidatesUnderCap(sorted, k, cap, sum, indices) ==
  IF k > Len(sorted) THEN [sum |-> sum, indices |-> indices]
  ELSE IF sum <= cap
  THEN acceptCandidatesUnderCap(sorted, k + 1, cap, sum + sorted[k].len,
                                Append(indices, sorted[k].i))
  ELSE acceptCandidatesUnderCap(sorted, k + 1, cap, sum, indices)

\* the loop leaving at the first candidate that does not fit (break)
RECURSIVE acceptCandidatesUntilFull(_, _, _, _, _)
acceptCandidatesUntilFull(sorted, k, cap, sum, indices) ==
  IF k > Len(sorted) \/ sum + sorted[k].len > cap THEN [sum |-> sum, indices |-> indices]
  ELSE acceptCandidatesUntilFull(sorted, k + 1, cap, sum + sorted[k].len,
                                 Append(indices, sorted[k].i))

\* for (const c of candidates) { if (sum + c.len <= cap) { sum += c.len; add c.i } }
RECURSIVE acceptCandidates(_, _, _, _, _)
acceptCandidates(sorted, k, cap, sum, indices) ==
  IF k > Len(sorted) THEN [sum |-> sum, indices |-> indices]
  ELSE IF sum + sorted[k].len <= cap
  THEN acceptCandidates(sorted, k + 1, cap, sum + sorted[k].len, Append(indices, sorted[k].i))
  ELSE acceptCandidates(sorted, k + 1, cap, sum, indices)

selectHighlights(cands, cap) ==
  acceptCandidates(sortCandidates(cands, 1..Len(cands)), 1, cap, 0, <<>>)

(***************************************************************************)
(* part_001: the Analyze click handler, per document                       *)
(***************************************************************************)
\* a key that Object.entries lists first, in numeric order: "0" or digits without a
\* leading zero
isIndexKey(w) == w # <<>> /\ (\A i \in 1..Len(w) : w[i] \in Digits) /\ (w[1] # "0" \/ Len(w) = 1)

\* the position of key a before key b in Object.entries(freq), first being the
\* index of a key's first occurrence in words
keyBefore(words, a, b) ==
  LET first(w) == CHOOSE i \in 1..Len(words) : words[i] = w /\ \A j \in 1..(i-1) : words[j] # w
  IN IF isIndexKey(a) /\ isIndexKey(b) THEN parseDigits(a, 1, 0) <= parseDigits(b, 1, 0)
     ELSE IF isIndexKey(a) # isIndexKey(b) THEN isIndexKey(a)
     ELSE first(a) <= first(b)

\* Object.entries(freq).sort((a,b) => b[1] - a[1])
RECURSIVE sortByFrequency(_, _)
sortByFrequency(words, todo) ==
  IF todo = {} THEN <<>>
  ELSE LET Before(a, b) ==
             \/ frequency(words, a) > frequency(words, b)
             \/ frequency(words, a) = frequency(words, b) /\ keyBefore(words, a, b)
           top == CHOOSE a \in todo : \A b \in todo : Before(a, b)
       IN <<[word |-> top, count |-> frequency(words, top)]>>
          \o sortByFrequency(words, todo \ {top})

\* base.repeated
repeatedWords(words) ==
  LET all == sortByFrequency(words, {words[i] : i \in 1..Len(words)})
  IN SubSeq(all, 1, Min(8, Len(all)))

\* the decimal digits of a natural number
RECURSIVE digitsOf(_)
digitsOf(n) == IF n < 10 THEN <<ToString(n)>> ELSE Append(digitsOf(n \div 10), ToString(n % 10))

\* doc.repeated.slice(0, 5).map(r => `${r.word} (${r.count})`).join(', ')
topRepeatedWords(repeated_) ==
  LET top == SubSeq(repeated_, 1, Min(5, Len(repeated_)))
  IN join([i \in 1..Len(top) |-> top[i].word \o <<" ", "(">> \o digitsOf(top[i].count) \o <<")">>],
          <<",", " ">>)

\* whether \b holds at position p of s, between s[p-1] and s[p]
IsBoundaryAt(s, p) ==
  (p > 1 /\ IsWordChar(s[p-1])) # (p <= Len(s) /\ IsWordChar(s[p]))

codeTokens ==
  << <<"f","u","n","c","t","i","o","n">>, <<"d","e","f">>, <<"c","l","a","s","s">>, <<"c","o","n","s","o","l","e",".">>, <<"S","y","s","t","e","m",".">>, <<"#","i","n","c","l","u","d","e">>, <<"i","m","p","o","r","t"," ">>,
     <<"p","u","b","l","i","c"," ">>, <<"p","r","i","v","a","t","e"," ">>, <<"v","a","r"," ">>, <<"l","e","t"," ">>, <<"c","o","n","s","t"," ">> >>

\* /\b(function|...|const )\b|\{|;\s*$/.test(l)
codeLike(l) ==
  \/ \E k \in 1..Len(codeTokens) : \E i \in 1..Len(l) :
       /\ OccursAt(l, codeTokens[k], i)
       /\ IsBoundaryAt(l, i)
       /\ IsBoundaryAt(l, i + Len(codeTokens[k]))
  \/ \E i \in 1..Len(l) : l[i] = "{"
  \/ \E i \in 1..Len(l) : l[i] = ";" /\ \A j \in (i+1)..Len(l) : IsSpace(l[j])

\* text.split(/\r?\n/)
splitLines(text) ==
  LET raw == split(text, "\n")
  IN [i \in 1..Len(raw) |->
        IF i < Len(raw) /\ raw[i] # <<>> /\ raw[i][Len(raw[i])] = "\r"
        THEN SubSeq(raw[i], 1, Len(raw[i]) - 1) ELSE raw[i]]

\* the loop without if (i===j) continue: a document is matched against itself too
RECURSIVE bestMatchWithSelf(_, _, _, _)
bestMatchWithSelf(docs, i, j, best) ==
  IF j > Len(docs) THEN best
  ELSE LET pct == computeSimilarityPercentage(normalizeToWordsClient(docs[i].text),
                                              normalizeToWordsClient(docs[j].text))
       IN bestMatchWithSelf(docs, i, j + 1,
                            IF RLess(best.pct, pct) THEN [name |-> docs[j].name, pct |-> pct]
                            ELSE best)

\* the loop with the test pct >= best.pct in place of pct > best.pct
RECURSIVE bestMatchLatest(_, _, _, _)
bestMatchLatest(docs, i, j, best) ==
  IF j > Len(docs) THEN best
  ELSE IF i = j THEN bestMatchLatest(docs, i, j + 1, best)
  ELSE LET pct == computeSimilarityPercentage(normalizeToWordsClient(docs[i].text),
                                              normalizeToWordsClient(docs[j].text))
       IN bestMatchLatest(docs, i, j + 1,
                          IF RLeq(best.pct, pct) THEN [name |-> docs[j].name, pct |-> pct]
                          ELSE best)

\* the best match of document i among the other documents, in the order of the loop
RECURSIVE bestMatchFrom(_, _, _, _)
bestMatchFrom(docs, i, j, best) ==
  IF j > Len(docs) THEN best
  ELSE IF i = j THEN bestMatchFrom(docs, i, j + 1, best)
  ELSE LET pct == computeSimilarityPercentage(normalizeToWordsClient(docs[i].text),
                                              normalizeToWordsClient(docs[j].text))
       IN bestMatchFrom(docs, i, j + 1,
                        IF RLess(best.pct, pct) THEN [name |-> docs[j].name, pct |-> pct]
                        ELSE best)

\* +(wordCount / sentenceCount).toFixed(2) without the test of sentenceCount
avgSentenceUnguarded(wordCount, sentenceCount) ==
  LET q == RDiv(RInt(wordCount), RInt(sentenceCount))
  IN IF q.d = 0 THEN q ELSE Rat(RRound(RMul(q, RInt(100))), 100)

\* base.sentenceCount ? +(base.wordCount / base.sentenceCount).toFixed(2) : 0
avgSentence(wordCount, sentenceCount) ==
  IF sentenceCount # 0
  THEN Rat(RRound(Rat(100 * wordCount, sentenceCount)), 100)
  ELSE RInt(0)

\* processed[i] at the end of the first loop (lines 719-746)
processDocument(docs, i) ==
  LET d == docs[i]
      words == normalizeToWordsClient(d.text)
      sentences == splitToSentences(d.text)
      lines == splitLines(d.text)
      codeLines == Len(SelectSeq(lines, codeLike))
      aiLikelihood == computeAiLikelihoodClient(d.text, sentences, words)
  IN [name |-> d.name, size |-> d.size, text |-> d.text,
      words |-> words, sentences |-> sentences,
      charCount |-> Len(d.text),
      subjects |-> detectSubjects(d.text),
      codeLines |-> codeLines,
      codePercentage |-> RRound(RMul(Rat(codeLines, Max(1, Len(lines))), RInt(100))),
      possibleScreenshot |-> d.size > 100000 /\ Len(trim(d.text)) < 200,
      bestMatch |-> bestMatchFrom(docs, i, 1, [name |-> "", pct |-> RInt(0)]),
      aiLikelihood |-> aiLikelihood,
      aiLabel |-> labelAiScoreClient(aiLikelihood),
      wordCount |-> Len(words),
      sentenceCount |-> Len(sentences),
      avgSentence |-> avgSentence(Len(words), Len(sentences)),
      repeated |-> repeatedWords(words)]

\* the object fileData of lines 799-806: it has no sentenceCount and no charCount
buildFileData(doc, sentences, sentenceScores, highlightedPercent) ==
  [text |-> doc.text,
   sentencesWithDelimiters |-> sentences,
   sentenceScores |-> sentenceScores,
   highlightedPercent |-> highlightedPercent,
   topRepeatedWords |-> topRepeatedWords(doc.repeated),
   wordCount |-> doc.wordCount]

\* filesContent[i] (lines 776-823)
fileContent(doc) ==
  LET sentences == sentencesWithDelimiters(doc.text, doc.sentences)
      analysis == [k \in 1..Len(sentences) |-> analyzeSentenceSignals(sentences[k])]
      totalLen == IF Len(doc.text) # 0 THEN Len(doc.text)
                  ELSE Max(1, Len(join(sentences, <<>>)))
      chosen == selectHighlights(highlightCandidates(sentences), highlightCap(totalLen))
      highlightedPercent == RRound(RMul(Rat(chosen.sum, totalLen), RInt(100)))
      sentenceScores == [k \in 1..Len(sentences) |-> computeSentenceAiScore(sentences[k])]
      fileData == buildFileData(doc, sentences, sentenceScores, highlightedPercent)
  IN [name |-> doc.name,
      text |-> doc.text,
      sentencesWithDelimiters |-> sentences,
      sentenceSignals |-> [k \in 1..Len(sentences) |-> analysis[k].count],
      highlightedIndices |-> chosen.indices,
      highlightedCharCount |-> chosen.sum,
      highlightedPercent |-> highlightedPercent,
      wordCount |-> doc.wordCount,
      sentenceCount |-> IF Len(sentences) # 0 THEN Len(sentences) ELSE doc.sentenceCount,
      charCount |-> Len(doc.text),
      aiContentScore |-> computeAiContentScore(fileData),
      topRepeatedWords |-> fileData.topRepeatedWords]

(***************************************************************************)
(* Inputs                                                                  *)
(***************************************************************************)
MaxLen == 4          \* every text over Alphabet up to this length is an input
MaxFragments == 2    \* and every concatenation of up to this many fragments
MaxFiles == 2        \* the largest batch of uploaded files

Alphabet == {"a", "B", " ", ".", ","}
ShortTexts == UNION {[1..n -> Alphabet] : n \in 0..MaxLen}

RECURSIVE Repeat(_, _)
Repeat(s, n) == IF n = 0 THEN <<>> ELSE s \o Repeat(s, n - 1)

CatSentence == <<"T","h","e"," ","c","a","t"," ","s","a","t"," ","o","n"," ","t","h","e"," ","m","a","t",".">>
CatText == CatSentence \o <<" ">> \o CatSentence \o <<" ">> \o CatSentence
SqlText == <<"S","E","L","E","C","T"," ","*"," ","F","R","O","M"," ","u","s","e","r","s"," ","W","H","E","R","E"," ","i","d","=","1">>

Fragments ==
  { CatSentence \o <<" ">>,
    <<"i"," ","m","a","y"," ","t","h","u","s","."," ">>,
    <<"O","v","e","r","a","l","l",","," ","i","t"," ","i","s"," ","n","o","t","e","d"," ","t","h","a","t"," ","s","o","m","e"," ","m","a","y"," ","o","f","t","e","n"," ","b","e"," ","u","s","e","d","!","!"," ">>,
    <<"H","o","w","e","v","e","r"," ","a"," ","a"," ","a"," ","b"," ","c","\\","d"," ","1","2","."," ","O","k","?","\n","\n">>,
    SqlText,
    <<" ","c","s","s"," ">> }

RECURSIVE Concatenations(_)
Concatenations(n) ==
  IF n = 0 THEN {<<>>}
  ELSE LET shorter == Concatenations(n - 1)
       IN shorter \cup {s \o f : s \in shorter, f \in Fragments}
FragmentTexts == Concatenations(MaxFragments)

\* ten sentences of fifteen words each, the last with three stock phrases
LongSentence == Repeat(<<"a"," ","b"," ","c"," ">>, 4) \o <<"a"," ","b"," ","c",".">> \o <<" ">>
LongText ==
  Repeat(LongSentence, 9)
    \o <<"O","v","e","r","a","l","l"," ","m","o","r","e","o","v","e","r"," ","f","u","r","t","h","e","r","m","o","r","e"," ">>
    \o Repeat(<<"a"," ","b"," ","c"," ">>, 3) \o <<"a"," ","b"," ","c",".">>
\* a text with backspace characters (U+0008) around four subjects' keywords
SubjectText ==
  <<BS,"s","q","l",BS," ",BS,"s","o","r","t",BS,BS,"s","o","r","t",BS," ",BS,"S","T","A","C","K",BS," ","c","s","s",".">>
SampleTexts == {CatText, LongText, SubjectText, <<"a">> \o Repeat(<<".">>, 25)}

Texts == ShortTexts \cup FragmentTexts \cup SampleTexts

\* the contents of reference.txt: missing or empty, or some text
ReferenceTexts == {<<>>, <<"a"," ","b"," ","c"," ","t","h","e"," ","c","a","t">>}

\* texts of the files of a batch
BatchTexts == {<<>>, <<"a"," ","b",".">>, <<"a"," ","b","."," ","c">>, <<"c"," ","d">>, <<".",".",".">>, CatSentence}
FileNames == <<"one.txt", "two.txt", "three.txt">>
Batches ==
  UNION {{[i \in 1..n |-> [name |-> FileNames[i], size |-> Len(t[i]), text |-> t[i]]]
            : t \in [1..n -> BatchTexts]} : n \in 0..MaxFiles}
\* the textarea when a batch of files is analysed: empty, blank, or a text
PastedWithBatch == {<<>>, <<" ">>, <<"a"," ","b",".">>, <<"a"," ","b","."," ","c">>}
SingleFiles == {<<[name |-> FileNames[1], size |-> Len(t), text |-> t]>> : t \in Texts}

NoResult == <<>>

(***************************************************************************)
(* State machine                                                           *)
(***************************************************************************)
\* One run is one request to the server or one click on Analyze in the browser;
\* the browser script never calls the server.
Init ==
  /\ pc \in {"request", "click"}
  /\ \/ /\ pc = "request"
        /\ referenceText \in ReferenceTexts
        /\ inputText \in Texts
        /\ files = <<>>
     \/ /\ pc = "click"
        /\ referenceText = <<>>
        /\ \/ inputText \in Texts /\ files = <<>>
           \/ inputText = <<>> /\ files \in SingleFiles
           \/ inputText \in PastedWithBatch /\ files \in Batches
  /\ requestWords = NoResult
  /\ response = NoResult
  /\ processed = NoResult
  /\ filesContent = NoResult
  /\ requests = <<>>
  /\ uploads = <<>>
  /\ dom = <<>>
  /\ sessionStorage = <<>>
  /\ handler = <<>>

\* POST /analyze with the text in the request body (server.js lines 176-206)
ServerAnalyze ==
  /\ pc = "request"
  /\ requestWords' = normalizeToWords(inputText)
  /\ response' = analyzeResponse(inputText)
  /\ pc' = "served"
  /\ UNCHANGED <<referenceText, inputText, files, processed, filesContent, requests, uploads,
                  pageVars>>

\* docs of the click handler (lines 714-716)
documents ==
  files \o (IF trim(inputText) # <<>>
            THEN <<[name |-> "Pasted Text", size |-> Len(inputText), text |-> inputText]>>
            ELSE <<>>)

\* if (docs.length === 0) { alert('No documents to analyze'); ...; return; }
ClientNoDocuments ==
  /\ pc = "click"
  /\ Len(documents) = 0
  /\ pc' = "alerted"
  /\ UNCHANGED <<referenceText, inputText, files, requestWords, response, processed, filesContent,
                  requests, uploads, pageVars>>

\* processed[i].aiContentScore = filesContent[i].aiContentScore (lines 827-831)
setAiContentScore(p, aiContentScore) ==
  [f \in DOMAIN p \cup {"aiContentScore"} |->
     IF f = "aiContentScore" THEN aiContentScore ELSE p[f]]

\* one document through both passes of the click handler
analyzeDocument(docs, i) ==
  LET p == processDocument(docs, i)
      content == fileContent(p)
  IN [processed |-> setAiContentScore(p, content.aiContentScore), content |-> content]

\* the Analyze click handler with documents (lines 719-854)
ClientAnalyze ==
  /\ pc = "click"
  /\ Len(documents) > 0
  /\ LET docs == documents
     IN \E results \in {[i \in 1..Len(docs) |-> analyzeDocument(docs, i)]} :
          /\ filesContent' = [i \in 1..Len(docs) |-> results[i].content]
          /\ processed' = [i \in 1..Len(docs) |-> results[i].processed]
  /\ pc' = "analyzed"
  /\ UNCHANGED <<referenceText, inputText, files, requestWords, response, requests, uploads,
                  pageVars>>

Next == ServerAnalyze \/ ClientNoDocuments \/ ClientAnalyze

Spec == Init /\ [][Next]_vars

(***************************************************************************)
(* Properties                                                              *)
(***************************************************************************)

\* the texts of the sentences the route hands to computeAiLikelihood
requestSentences ==
  LET split_ == splitSentencesWithPosition(inputText)
  IN [i \in 1..Len(split_) |-> split_[i].text]

\* C1: computeAiLikelihood returns an integer from 0 to 100: the server's
\* document-level aiLikelihood and the score of each of its sentences, with or
\* without a reference corpus, and the client's aiLikelihood of every document
C1_AiLikelihoodInRange ==
  /\ pc = "served" =>
       /\ response.aiLikelihood \in 0..100
       /\ \A k \in 1..Len(response.highlights) : response.highlights[k].score \in 0..100
  /\ pc = "analyzed" =>
       \A i \in 1..Len(processed) : processed[i].aiLikelihood \in 0..100

\* a request with a reference corpus whose score exceeds 100 before the cap
C1_Witness ==
  /\ pc = "served"
  /\ referenceText # <<>>
  /\ requestWords # <<>>
  /\ RLess(RInt(100), rawScore(inputText, requestSentences, requestWords))
  /\ response.aiLikelihood = 100

\* C2: computeAiContentScore returns an integer from 0 to 100 and never NaN,
\* although the fileData it is given has no sentenceCount and no charCount
C2_ContentScoreInRange ==
  pc = "analyzed" =>
    \A i \in 1..Len(processed) :
      /\ IsInteger(processed[i].aiContentScore)
      /\ processed[i].aiContentScore.n \in 0..100
      /\ filesContent[i].aiContentScore = processed[i].aiContentScore

\* a document with words and a formal word, marked from a fileData without the
\* two fields
C2_Witness ==
  /\ pc = "analyzed"
  /\ \E i \in 1..Len(processed) :
       /\ processed[i].wordCount > 0
       /\ countWord(toLowerCase(processed[i].text), <<"h","o","w","e","v","e","r">>) > 0
       /\ {"sentenceCount", "charCount"}
            \cap DOMAIN buildFileData(processed[i], <<>>, <<>>, 0) = {}
       /\ processed[i].aiContentScore.n \in 1..100

\* C3: for the empty string as document text the analysis yields wordCount 0,
\* sentenceCount 0, aiLikelihood 0, content mark 0 and subjects ["General"]
\* (the server's response has the first three only)
C3_EmptyDocument ==
  /\ (pc = "served" /\ inputText = <<>>) =>
       /\ response.wordCount = 0
       /\ response.sentenceCount = 0
       /\ response.aiLikelihood = 0
  /\ pc = "analyzed" =>
       \A i \in 1..Len(processed) :
         processed[i].text = <<>> =>
           /\ processed[i].wordCount = 0
           /\ processed[i].sentenceCount = 0
           /\ processed[i].aiLikelihood = 0
           /\ processed[i].aiContentScore = RInt(0)
           /\ processed[i].subjects = <<"General">>
           /\ filesContent[i].wordCount = 0
           /\ filesContent[i].sentenceCount = 0
           /\ filesContent[i].aiContentScore = RInt(0)

\* an empty file analysed in a batch with a file that has words
C3_Witness ==
  /\ pc = "analyzed"
  /\ \E i, j \in 1..Len(processed) :
       /\ processed[i].text = <<>>
       /\ processed[i].subjects = <<"General">>
       /\ processed[j].wordCount > 0

\* C4: normalizeToWords is idempotent: normalizing the space-joined words of a
\* text gives the same words again, in the server's and in the client's version
C4_NormalizeIdempotent ==
  /\ pc = "served" =>
       normalizeToWords(join(requestWords, <<" ">>)) = requestWords
  /\ pc = "analyzed" =>
       \A i \in 1..Len(processed) :
         normalizeToWordsClient(join(processed[i].words, <<" ">>)) = processed[i].words

\* a request whose text has an upper-case letter, punctuation between two words
\* and a run of spaces, so that every step of the normalization changes it
C4_Witness ==
  /\ pc = "served"
  /\ Len(requestWords) >= 2
  /\ \E i \in 1..Len(inputText) : inputText[i] \in UpperLetters
  /\ \E i \in 2..Len(inputText) : inputText[i] = " " /\ inputText[i-1] \in PunctuationServer
  /\ \E i \in 2..Len(inputText) : inputText[i] = " " /\ inputText[i-1] = " "
  /\ normalizeToWords(join(requestWords, <<" ">>)) = requestWords

\* C5: the sentences of splitSentencesWithPosition each satisfy
\* 0 <= start < end <= text.length, their starts strictly increase, and each
\* starts at or after the end of the one before
C5_SentenceSpans ==
  pc = "served" =>
    LET h == response.highlights
    IN /\ \A k \in 1..Len(h) :
            0 <= h[k].start /\ h[k].start < h[k].end /\ h[k].end <= Len(inputText)
       /\ \A k \in 1..(Len(h) - 1) :
            h[k].start < h[k+1].start /\ h[k].end <= h[k+1].start

\* three or more sentences, one of them trimmed of surrounding whitespace, the
\* last without a terminator
C5_Witness ==
  /\ pc = "served"
  /\ Len(response.highlights) >= 3
  /\ response.highlights[Len(response.highlights)].end = Len(inputText)
  /\ ~IsTerminator(inputText[Len(inputText)])
  /\ \E k \in 1..Len(response.highlights) :
       Len(response.highlights[k].text)
         < response.highlights[k].end - response.highlights[k].start

\* C6: for every document the total length of the sentences the highlight
\* selector accepts, highlightedCharCount, is at most ceil(0.30 * document length)
C6_HighlightCoverage ==
  pc = "analyzed" =>
    \A i \in 1..Len(filesContent) :
      /\ filesContent[i].highlightedCharCount
           <= RCeil(Rat(3 * Len(filesContent[i].text), 10))
      /\ filesContent[i].highlightedCharCount
           = Sum([k \in 1..Len(filesContent[i].highlightedIndices) |->
                    Len(filesContent[i].sentencesWithDelimiters[
                          filesContent[i].highlightedIndices[k] + 1])])

\* a document with a sentence accepted and a candidate left out by the cap
C6_Witness ==
  /\ pc = "analyzed"
  /\ \E i \in 1..Len(filesContent) :
       /\ filesContent[i].highlightedCharCount > 0
       /\ Len(filesContent[i].highlightedIndices)
            < Len(highlightCandidates(filesContent[i].sentencesWithDelimiters))

\* the similarity the click handler computes for document i against document j
similarity(i, j) == computeSimilarityPercentage(processed[i].words, processed[j].words)

vocabulary(i) == {processed[i].words[k] : k \in 1..Len(processed[i].words)}

\* C7 as stated: computeSimilarityPercentage returns 100 for any two distinct
\* documents with identical text and 0 for any two with disjoint vocabularies
C7_SimilarityAsStated ==
  pc = "analyzed" =>
    \A i, j \in 1..Len(processed) :
      i # j =>
        /\ processed[i].text = processed[j].text => similarity(i, j) = RInt(100)
        /\ vocabulary(i) \cap vocabulary(j) = {} => similarity(i, j) = RInt(0)

\* C7, amended: computeSimilarityPercentage returns 100 for two distinct documents
\* with identical text that has at least one word, and 0 for two documents with
\* disjoint vocabularies, two documents without words among them; a document
\* with an identical other has a best match of 100
C7_Similarity ==
  pc = "analyzed" =>
    \A i, j \in 1..Len(processed) :
      i # j =>
        /\ (processed[i].text = processed[j].text /\ Len(processed[i].words) > 0) =>
             /\ similarity(i, j) = RInt(100)
             /\ processed[i].bestMatch.pct = RInt(100)
        /\ vocabulary(i) \cap vocabulary(j) = {} => similarity(i, j) = RInt(0)

\* a batch with two identical documents that repeat a word, and a third whose
\* words are none of theirs
C7_Witness ==
  /\ pc = "analyzed"
  /\ \E i, j, k \in 1..Len(processed) :
       /\ i # j
       /\ processed[i].text = processed[j].text
       /\ Cardinality(vocabulary(i)) < Len(processed[i].words)
       /\ similarity(i, j) = RInt(100)
       /\ vocabulary(k) # {}
       /\ vocabulary(i) \cap vocabulary(k) = {}
       /\ similarity(i, k) = RInt(0)

\* the request of the cat text with no reference corpus, served
catServed == pc = "served" /\ inputText = CatText /\ referenceText = <<>>

\* C8: for "The cat sat on the mat." three times with no reference corpus the
\* server reports wordCount 18 and sentenceCount 3, and the document-level score
\* is made of exactly these flags: low uniqueness +15, length range below 8 +15,
\* low starter diversity +10, no punctuation irregularity +10 and repeated words
\* +10, which is 60
C8_CatTextScore ==
  catServed =>
    LET lengths == sentenceLengths(requestSentences)
    IN /\ response.wordCount = 18
       /\ response.sentenceCount = 3
       /\ uniquePoints(requestWords) = 15
       /\ rangePoints(lengths) = 15
       /\ starterPoints(requestSentences) = 10
       /\ errorPoints(inputText) = 10
       /\ repeatedPoints(requestWords) = 10
       /\ consistencyPoints(lengths) = 0
       /\ phrasePoints(inputText) = 0
       /\ referencePoints(requestWords) = RInt(0)
       /\ longPoints(requestSentences, lengths) = 0
       /\ rawScore(inputText, requestSentences, requestWords) = RInt(60)
       /\ response.aiLikelihood = 60

\* the cat text served with a score of 60 and the label of the middle band
C8_Witness ==
  /\ catServed
  /\ response.aiLikelihood = 60
  /\ response.aiLabel = "Mixed (AI + Human)"

\* C9 as stated: for the cat text the vocabulary ratio is 6/18, the frequency of
\* "the" is 9, and the repetition test compares that 9 against 18 * 0.05
C9_IntermediatesAsStated ==
  catServed =>
    /\ SetSize(requestWords) = 6
    /\ uniqueRatio(requestWords) = Rat(6, 18)
    /\ frequency(requestWords, <<"t","h","e">>) = 9
    /\ repeated(requestWords) = 9

\* C9, amended: for the cat text the vocabulary ratio is 5/18 (5 distinct words
\* out of 18), the frequency of "the" is 6, and the repetition test compares the
\* number of distinct words that occur more than 4 times, which is 1, against
\* 18 * 0.05; the flags of uniqueness and repetition fire all the same
C9_Intermediates ==
  catServed =>
    /\ Len(requestWords) = 18
    /\ SetSize(requestWords) = 5
    /\ uniqueRatio(requestWords) = Rat(5, 18)
    /\ frequency(requestWords, <<"t","h","e">>) = 6
    /\ repeated(requestWords) = 1
    /\ 20 * repeated(requestWords) > Len(requestWords)
    /\ uniquePoints(requestWords) = 15
    /\ repeatedPoints(requestWords) = 10

\* the cat text served, "the" being its one word that occurs more than 4 times
C9_Witness ==
  /\ catServed
  /\ {w \in {requestWords[i] : i \in 1..Len(requestWords)} : frequency(requestWords, w) > 4}
       = {<<"t","h","e">>}

\* C10: detectSubjects applied to a text that contains
\* "SELECT * FROM users WHERE id=1" returns a list that includes "Databases"
C10_SqlIsDatabases ==
  pc = "analyzed" =>
    \A i \in 1..Len(processed) :
      includes(processed[i].text, SqlText) =>
        \E k \in 1..Len(processed[i].subjects) : processed[i].subjects[k] = "Databases"

\* C11 as stated: in a batch of 3 documents whose second text is a copy of the
\* first, document 1's bestMatch is 100 with the name of document 2 and document
\* 2's is 100 with the name of document 1, whatever the third document holds
C11_CopyIsBestMatchAsStated ==
  (pc = "analyzed" /\ Len(processed) = 3 /\ processed[1].text = processed[2].text) =>
    /\ processed[1].bestMatch = [name |-> processed[2].name, pct |-> RInt(100)]
    /\ processed[2].bestMatch = [name |-> processed[1].name, pct |-> RInt(100)]

\* C11, amended: the same when the copied text has at least one word; two copies
\* without words have no best match, ("", 0), unless the third document gives none
\* either
C11_CopyIsBestMatch ==
  (pc = "analyzed" /\ Len(processed) = 3 /\ processed[1].text = processed[2].text) =>
    IF Len(processed[1].words) > 0
    THEN /\ processed[1].bestMatch = [name |-> processed[2].name, pct |-> RInt(100)]
         /\ processed[2].bestMatch = [name |-> processed[1].name, pct |-> RInt(100)]
    ELSE /\ processed[1].bestMatch = [name |-> "", pct |-> RInt(0)]
         /\ processed[2].bestMatch = [name |-> "", pct |-> RInt(0)]

\* two copies with words and a third, different document that holds all their words
C11_Witness ==
  /\ pc = "analyzed"
  /\ Len(processed) = 3
  /\ processed[1].text = processed[2].text
  /\ processed[3].text # processed[1].text
  /\ Len(processed[1].words) > 0
  /\ similarity(1, 3) = RInt(100)
  /\ processed[1].bestMatch.name = processed[2].name

\* the label the bands give to the score of a labelled entry
inBand(score, label) ==
  /\ score < 35 => label = "Human-written"
  /\ (35 <= score /\ score <= 69) => label = "Mixed (AI + Human)"
  /\ score >= 70 => label = "Likely AI-generated"

\* C12: the server's labelAiScore gives every integer from 0 to 100 a label,
\* "Human-written" below 35, "Mixed (AI + Human)" from 35 to 69 and
\* "Likely AI-generated" from 70; the aiLabel of every response and the label of
\* every sentence entry is the label of the score reported next to it
C12_ServerLabels ==
  /\ \A pct \in 0..100 : inBand(pct, labelAiScore(pct))
  /\ pc = "served" =>
       /\ inBand(response.aiLikelihood, response.aiLabel)
       /\ \A k \in 1..Len(response.highlights) :
            inBand(response.highlights[k].score, response.highlights[k].label)

\* a response that reports a score on the edge of a band, 35 or 70
C12_Witness ==
  /\ pc = "served"
  /\ \/ response.aiLikelihood = 35 /\ response.aiLabel = "Mixed (AI + Human)"
     \/ response.aiLikelihood = 70 /\ response.aiLabel = "Likely AI-generated"
     \/ \E k \in 1..Len(response.highlights) :
          \/ /\ response.highlights[k].score = 35
             /\ response.highlights[k].label = "Mixed (AI + Human)"
          \/ /\ response.highlights[k].score = 70
             /\ response.highlights[k].label = "Likely AI-generated"

\* the hit count of subject k of the map in the text of document i
hits(i, k) == subjectCount(toLowerCase(processed[i].text), k)
hitSubjects(i) == {k \in 1..Len(subjectMap) : hits(i, k) > 0}

\* C13: detectSubjects returns a non-empty list of at most 3 distinct labels:
\* the subjects with a pattern hit in the lowercased text, by descending hit
\* count, cut to the first 3; it is the one label "General" exactly when no
\* subject has a hit
C13_DetectSubjects ==
  pc = "analyzed" =>
    \A i \in 1..Len(processed) :
      LET subs == processed[i].subjects
      IN /\ Len(subs) \in 1..3
         /\ \A m, n \in 1..Len(subs) : m # n => subs[m] # subs[n]
         /\ (subs = <<"General">>) <=> (hitSubjects(i) = {})
         /\ hitSubjects(i) # {} =>
              /\ Len(subs) = Min(3, Cardinality(hitSubjects(i)))
              /\ \E ks \in [1..Len(subs) -> hitSubjects(i)] :
                   /\ \A n \in 1..Len(subs) : subs[n] = subjectMap[ks[n]].subject
                   /\ \A n \in 1..(Len(subs) - 1) : hits(i, ks[n]) >= hits(i, ks[n+1])
                   /\ \A k \in hitSubjects(i) :
                        (\A n \in 1..Len(subs) : ks[n] # k) =>
                          hits(i, k) <= hits(i, ks[Len(subs)])

\* a document with hits for four subjects, of different counts, cut to three
C13_Witness ==
  /\ pc = "analyzed"
  /\ \E i \in 1..Len(processed) :
       /\ Cardinality(hitSubjects(i)) > 3
       /\ Len(processed[i].subjects) = 3
       /\ \E k, j \in hitSubjects(i) : hits(i, k) > hits(i, j)

\* C14: each document's bestMatch is taken among the other documents of the
\* batch only, and is the name and percentage of one with the largest
\* similarity, the earliest in batch order when several have it; it is ("", 0)
\* when there is no other document or every other has similarity 0
C14_BestMatch ==
  pc = "analyzed" =>
    \A i \in 1..Len(processed) :
      LET others == (1..Len(processed)) \ {i}
          best == processed[i].bestMatch
      IN IF \A j \in others : similarity(i, j) = RInt(0)
         THEN best = [name |-> "", pct |-> RInt(0)]
         ELSE \E j \in others :
                /\ best = [name |-> processed[j].name, pct |-> similarity(i, j)]
                /\ \A k \in others : RLeq(similarity(i, k), similarity(i, j))
                /\ \A k \in others : k < j => RLess(similarity(i, k), similarity(i, j))

\* a document whose two best matches tie below 100, and one with words and no match
C14_Witness ==
  /\ pc = "analyzed"
  /\ \E i, j, k \in 1..Len(processed) :
       /\ j < k /\ i # j /\ i # k
       /\ similarity(i, j) = similarity(i, k)
       /\ RLess(RInt(0), similarity(i, j)) /\ RLess(similarity(i, j), RInt(100))
       /\ processed[i].bestMatch.name = processed[j].name

\* C15: a text without words (empty, whitespace or punctuation only) gets the
\* neutral value of every extractor and composer: aiLikelihood 0 on the server
\* and in the browser, content mark 0, similarity 0 to every other document,
\* subjects ["General"], no highlighted sentence, and finite numbers in the
\* computed fields
C15_WordlessText ==
  /\ (pc = "served" /\ requestWords = <<>>) =>
       /\ response.aiLikelihood = 0
       /\ response.wordCount = 0
       /\ \A k \in 1..Len(response.highlights) : response.highlights[k].score = 0
  /\ pc = "analyzed" =>
       \A i \in 1..Len(processed) :
         processed[i].words = <<>> =>
           /\ processed[i].aiLikelihood = 0
           /\ processed[i].aiContentScore = RInt(0)
           /\ filesContent[i].aiContentScore = RInt(0)
           /\ \A j \in 1..Len(processed) : similarity(i, j) = RInt(0)
           /\ processed[i].bestMatch.pct = RInt(0)
           /\ processed[i].subjects = <<"General">>
           /\ filesContent[i].highlightedIndices = <<>>
           /\ filesContent[i].highlightedCharCount = 0
           /\ filesContent[i].highlightedPercent = 0
           /\ processed[i].codePercentage \in 0..100
           /\ processed[i].avgSentence.d # 0

\* a whitespace-only file: no words and no sentence, an average of 0 and not 0/0
C15_Witness ==
  /\ pc = "analyzed"
  /\ \E i \in 1..Len(processed) :
       /\ processed[i].text # <<>>
       /\ trim(processed[i].text) = <<>>
       /\ processed[i].sentenceCount = 0
       /\ processed[i].avgSentence = RInt(0)

(***************************************************************************)
(* server.js: uploaded files and requests in flight together               *)
(***************************************************************************)
LastIndexOf(s, c) ==
  LET at == {i \in 1..Len(s) : s[i] = c}
  IN IF at = {} THEN 0 ELSE CHOOSE i \in at : \A k \in at : k <= i

\* path.extname: from the last "." of the last component of the path to its end;
\* "" when the component has no ".", begins with its only "." or is ".."
extname(p) ==
  LET base == LastIndexOf(p, "/") + 1
      dot == LastIndexOf(p, ".")
  IN IF dot <= base \/ SubSeq(p, base, Len(p)) = <<".",".">> THEN <<>>
     ELSE SubSeq(p, dot, Len(p))

\* how a call ends: with a value, or with an exception
Returned(value) == [threw |-> FALSE, value |-> value]
Thrown == [threw |-> TRUE, value |-> <<>>]

\* fs.readFileSync(filePath): throws when no file is there or it cannot be read
readFileSync(dir, filePath) ==
  IF filePath \in DOMAIN dir /\ dir[filePath].disk = "ok"
  THEN Returned(dir[filePath])
  ELSE Thrown

\* pdf(data) and mammoth.extractRawText({buffer: data}): the parsed object's text
\* (parsed.text, res.value), which may be missing, or an exception
parseDocument(data) ==
  CASE data.parser = "throws" -> Thrown
    [] data.parser = "empty" -> Returned(<<>>)
    [] OTHER -> Returned(data.content)

\* the try block of extractTextFromFile (lines 152-164)
extractTextOrThrow(dir, filePath, name) ==
  LET ext == toLowerCase(extname(name))
      data == readFileSync(dir, filePath)
  IN IF data.threw THEN Thrown
     ELSE IF ext \in {<<".","p","d","f">>, <<".","d","o","c","x">>} THEN parseDocument(data.value)
     ELSE Returned(data.value.content)

\* extractTextFromFile without its catch clause
extractTextFromFileUncaught(dir, filePath, name) == extractTextOrThrow(dir, filePath, name)

\* try { ... } catch { return ''; }
extractTextFromFile(dir, filePath, name) ==
  LET result == extractTextOrThrow(dir, filePath, name)
  IN IF result.threw THEN Returned(<<>>) ELSE result

\* multer storing every upload under one fixed name
uploadPathFixed(r) == 1

\* multer({dest: .../uploads}) stores each upload under a name of its own
uploadPath(r) == r

\* the file multer writes for a request
storedFile(req) == [content |-> req.content, disk |-> req.disk, parser |-> req.parser]

\* upload.single('file'): dir after the upload of the request has been stored
storeUpload(dir, r, req) ==
  IF req.upload
  THEN [path \in DOMAIN dir \cup {uploadPath(r)} |->
          IF path = uploadPath(r) THEN storedFile(req) ELSE dir[path]]
  ELSE dir

\* deleteFile(filePath): fs.unlink, its error ignored
deleteFile(dir, filePath) == [path \in DOMAIN dir \ {filePath} |-> dir[path]]

\* lines 178-187: the handler's locals fileName and text after the if / else if
requestText(dir, r, req) ==
  IF req.upload THEN extractTextFromFile(dir, uploadPath(r), req.originalname)
  ELSE IF req.bodyIsString /\ req.bodyText = <<>> THEN Returned(<<>>)
  ELSE Returned(req.bodyText)

AnalysisFailed == [status |-> 500, body |-> [error |-> "Analysis failed"]]

\* lines 189-205: the response for the text; normalizeToWords throws on a
\* req.body.text that is no string, and the catch of the route answers 500
respond(req, extracted) ==
  IF extracted.threw \/ (~req.upload /\ ~req.bodyIsString) THEN AnalysisFailed
  ELSE [status |-> 200,
        body |-> [analyzeResponse(extracted.value) EXCEPT
                    !.fileName = IF req.upload THEN req.originalname ELSE <<>>]]

MaxRequests == 2     \* requests in flight together

BodyRequest(text, isString) ==
  [upload |-> FALSE, originalname |-> <<>>, content |-> <<>>, disk |-> "ok",
   parser |-> "text", bodyText |-> text, bodyIsString |-> isString]

FileRequest(name, content, disk, parser) ==
  [upload |-> TRUE, originalname |-> name, content |-> content, disk |-> disk,
   parser |-> parser, bodyText |-> <<>>, bodyIsString |-> TRUE]

\* requests with the text in the body (a string, none, or a JSON number) and with
\* a file that is read, cannot be read, is parsed, has no text, or breaks its parser
RequestInputs ==
  { BodyRequest(<<"a"," ","b","."," ","c">>, TRUE),
    BodyRequest(<<>>, TRUE),
    BodyRequest(<<"7">>, FALSE),
    FileRequest(<<"o","n","e",".","t","x","t">>, CatSentence, "ok", "text"),
    FileRequest(<<"t","w","o",".","T","X","T">>, <<"b"," ","c",".">>, "unreadable", "text"),
    FileRequest(<<"t","h","r","e","e",".","p","d","f">>, <<"O","v","e","r","a","l","l"," ","m","o","r","e","o","v","e","r"," ","c",".">>, "ok", "text"),
    FileRequest(<<"f","o","u","r",".","P","D","F">>, <<"d",".">>, "ok", "throws"),
    FileRequest(<<"f","i","v","e",".","d","o","c","x">>, <<"e",".">>, "ok", "empty"),
    FileRequest(<<"s","i","x",".","d","o","c","x">>, <<"f",".">>, "ok", "throws"),
    FileRequest(<<"n","o","t","e","s">>, <<"a"," ","a"," ","a","."," ","g">>, "ok", "text") }

NoResponse == [status |-> 0, body |-> [error |-> ""]]

InitServer ==
  /\ referenceText \in ReferenceTexts
  /\ requests \in [1..MaxRequests ->
                     {[req |-> req, pc |-> "sent", extracted |-> Returned(<<>>),
                       response |-> NoResponse] : req \in RequestInputs}]
  /\ uploads = <<>>
  /\ pc = "listening"
  /\ inputText = <<>>
  /\ files = <<>>
  /\ requestWords = NoResult
  /\ response = NoResult
  /\ processed = NoResult
  /\ filesContent = NoResult
  /\ dom = <<>>
  /\ sessionStorage = <<>>
  /\ handler = <<>>

clientVars == <<inputText, files, pc, requestWords, response, processed, filesContent>>

\* upload.single('file') runs before the handler and stores the request's file
Arrive(r) ==
  /\ requests[r].pc = "sent"
  /\ uploads' = storeUpload(uploads, r, requests[r].req)
  /\ requests' = [requests EXCEPT ![r].pc = "accepted"]
  /\ UNCHANGED <<referenceText, clientVars, pageVars>>

\* the handler up to its await: a request without a file has none and is answered
\* in the same step; with a file the handler reads it and waits for the text
Handle(r) ==
  /\ requests[r].pc = "accepted"
  /\ LET req == requests[r].req
         extracted == requestText(uploads, r, req)
     IN IF req.upload
        THEN requests' = [requests EXCEPT ![r].pc = "awaiting", ![r].extracted = extracted]
        ELSE requests' = [requests EXCEPT ![r].pc = "responded", ![r].extracted = extracted,
                                          ![r].response = respond(req, extracted)]
  /\ UNCHANGED <<referenceText, uploads, clientVars, pageVars>>

\* the handler after its await: deleteFile, the analysis and res.json
Resume(r) ==
  /\ requests[r].pc = "awaiting"
  /\ uploads' = deleteFile(uploads, uploadPath(r))
  /\ requests' = [requests EXCEPT ![r].pc = "responded",
                                  ![r].response = respond(requests[r].req, requests[r].extracted)]
  /\ UNCHANGED <<referenceText, clientVars, pageVars>>

NextServer == \E r \in 1..MaxRequests : Arrive(r) \/ Handle(r) \/ Resume(r)

SpecServer == InitServer /\ [][NextServer]_vars

\* the extraction of the request's file ends in an exception inside extractTextFromFile
extractionFails(req) ==
  /\ req.upload
  /\ \/ req.disk # "ok"
     \/ toLowerCase(extname(req.originalname)) \in {<<".","p","d","f">>, <<".","d","o","c","x">>} /\ req.parser = "throws"

\* C16: a request whose file cannot be read or whose PDF or DOCX parser throws is
\* answered with a success response for the empty text (wordCount 0,
\* sentenceCount 0, aiLikelihood 0), and no request with a file gets "Analysis failed"
C16_ExtractionFailure ==
  \A r \in 1..MaxRequests :
    (requests[r].pc = "responded" /\ requests[r].req.upload) =>
      /\ requests[r].response # AnalysisFailed
      /\ extractionFails(requests[r].req) =>
           /\ requests[r].extracted = Returned(<<>>)
           /\ requests[r].response.status = 200
           /\ requests[r].response.body.wordCount = 0
           /\ requests[r].response.body.sentenceCount = 0
           /\ requests[r].response.body.aiLikelihood = 0

\* an unreadable file and a document that breaks its parser, both answered
C16_Witness ==
  \E r1, r2 \in 1..MaxRequests :
    /\ requests[r1].pc = "responded" /\ requests[r2].pc = "responded"
    /\ requests[r1].req.upload /\ requests[r1].req.disk = "unreadable"
    /\ requests[r1].response.status = 200
    /\ requests[r2].req.upload /\ requests[r2].req.parser = "throws"
    /\ requests[r2].response.status = 200
    /\ requests[r2].response.body.fileName = requests[r2].req.originalname

\* the response to a request that is alone on the server
soloResponse(r) ==
  LET req == requests[r].req
  IN respond(req, requestText(storeUpload(<<>>, r, req), r, req))

C17_SoloResponses ==
  \A r \in 1..MaxRequests :
    requests[r].pc = "responded" => requests[r].response = soloResponse(r)

\* C17: however the handlers of concurrent requests interleave around their
\* awaits, every response is the one the request gets when it is alone, and no
\* step of a handler writes referenceText
C17_Isolation == [](C17_SoloResponses) /\ [][referenceText' = referenceText]_vars

\* a handler suspended at its await while a later request has been answered,
\* and both answered, with different texts, after the first resumed
C17_Witness ==
  /\ requests[1].pc = "responded" /\ requests[2].pc = "responded"
  /\ requests[1].req.upload /\ requests[2].req.upload
  /\ requests[1].response.status = 200 /\ requests[2].response.status = 200
  /\ requests[1].response.body.wordCount > 0
  /\ requests[1].response.body.wordCount # requests[2].response.body.wordCount

\* C18: the highlights of a response are the sentences of
\* splitSentencesWithPosition, one entry each, in order and with the same text,
\* start and end; the score of an entry is computeAiLikelihood of the sentence
\* alone with its own words, and sentenceCount is the number of entries
C18_PerSentenceEntries ==
  pc = "served" =>
    LET spans == splitSentencesWithPosition(inputText)
    IN /\ Len(response.highlights) = Len(spans)
       /\ response.sentenceCount = Len(spans)
       /\ \A k \in 1..Len(spans) :
            /\ response.highlights[k].text = spans[k].text
            /\ response.highlights[k].start = spans[k].start
            /\ response.highlights[k].end = spans[k].end
            /\ response.highlights[k].score =
                 computeAiLikelihood(spans[k].text, <<spans[k].text>>,
                                     normalizeToWords(spans[k].text))

\* a response with several sentences, one of them scored above 0 and other
\* than the document
C18_Witness ==
  /\ pc = "served"
  /\ Len(response.highlights) >= 2
  /\ \E k \in 1..Len(response.highlights) :
       /\ response.highlights[k].score > 0
       /\ response.highlights[k].score # response.aiLikelihood

\* C19: the spans of splitSentencesWithPosition tile the text from offset 0, each
\* starting where the one before ends; every character that is not whitespace is
\* in exactly one span, so only a whitespace tail stays uncovered, and the
\* trimmed text of every span is not empty
C19_SpansTileText ==
  pc = "served" =>
    LET h == response.highlights
        covering(i) == {k \in 1..Len(h) : h[k].start < i /\ i <= h[k].end}
    IN /\ Len(h) > 0 => h[1].start = 0
       /\ \A k \in 1..(Len(h) - 1) : h[k+1].start = h[k].end
       /\ \A i \in 1..Len(inputText) :
            ~IsSpace(inputText[i]) => Cardinality(covering(i)) = 1
       /\ \A i \in 1..Len(inputText) :
            (Len(h) = 0 \/ i > h[Len(h)].end) => IsSpace(inputText[i])
       /\ \A k \in 1..Len(h) :
            /\ trim(slice(inputText, h[k].start, h[k].end)) # <<>>
            /\ h[k].text = trim(slice(inputText, h[k].start, h[k].end))

\* two spans, the second beginning with whitespace, and whitespace left after the last
C19_Witness ==
  /\ pc = "served"
  /\ Len(response.highlights) >= 2
  /\ response.highlights[Len(response.highlights)].end < Len(inputText)
  /\ IsSpace(inputText[response.highlights[2].start + 1])
  /\ response.highlights[2].start = response.highlights[1].end

\* the sentences of document i the selector accepted, as 1-based positions
highlighted(i) ==
  {filesContent[i].highlightedIndices[j] + 1 : j \in 1..Len(filesContent[i].highlightedIndices)}

\* sentence a of document i is visited before sentence b: more signals, or as
\* many and shorter, or as many and as long and earlier in the text
visitedBefore(i, a, b) ==
  LET count == filesContent[i].sentenceSignals
      s == filesContent[i].sentencesWithDelimiters
  IN \/ count[a] > count[b]
     \/ count[a] = count[b] /\ Len(s[a]) < Len(s[b])
     \/ count[a] = count[b] /\ Len(s[a]) = Len(s[b]) /\ a < b

\* the length accepted in document i when sentence k is visited
acceptedBefore(i, k) ==
  LET s == filesContent[i].sentencesWithDelimiters
  IN Sum([a \in 1..Len(s) |->
            IF a \in highlighted(i) /\ visitedBefore(i, a, k) THEN Len(s[a]) ELSE 0])

\* C20: the selector highlights candidates only (3 signals or more), visits them
\* by descending signal count and then ascending length, and accepts a
\* candidate exactly when its length and the length accepted before it stay
\* within floor(0.30 * document length); one that does not fit is passed over
C20_HighlightSelection ==
  pc = "analyzed" =>
    \A i \in 1..Len(filesContent) :
      LET s == filesContent[i].sentencesWithDelimiters
          count == filesContent[i].sentenceSignals
          picked == filesContent[i].highlightedIndices
          cap == RFloor(Rat(30 * Len(filesContent[i].text), 100))
      IN /\ \A k \in highlighted(i) : k \in 1..Len(s) /\ count[k] >= 3
         /\ \A k \in 1..Len(s) :
              count[k] >= 3 =>
                (k \in highlighted(i) <=> Len(s[k]) + acceptedBefore(i, k) <= cap)
         /\ \A j \in 1..(Len(picked) - 1) : visitedBefore(i, picked[j] + 1, picked[j+1] + 1)

\* a candidate that did not fit and was passed over, and one visited after it
\* that was accepted
C20_Witness ==
  /\ pc = "analyzed"
  /\ \E i \in 1..Len(filesContent) :
       \E a, b \in 1..Len(filesContent[i].sentencesWithDelimiters) :
         /\ filesContent[i].sentenceSignals[a] >= 3
         /\ a \notin highlighted(i)
         /\ b \in highlighted(i)
         /\ visitedBefore(i, a, b)

\* the score of the request when the phrases give phraseCount hits, the other
\* contributions being those of the request
scoreWithPhraseHits(phraseCount) ==
  LET others == RSub(rawScore(inputText, requestSentences, requestWords),
                     RInt(phrasePoints(inputText)))
  IN Min(RRound(RAdd(others, RInt(Min(phraseCount * 6, 20)))), 100)

\* C21 as stated: every occurrence of a phrase of the list is a hit, a phrase
\* that appears k times giving k hits, and the score takes min(hits * 6, 20)
C21_PhraseHitsAsStated ==
  (pc = "served" /\ requestWords # <<>>) =>
    response.aiLikelihood = scoreWithPhraseHits(phraseOccurrences(inputText))

\* C21, amended: the hits are the phrases of the list that occur in the
\* lowercased text, each counted once however often it occurs, and the score
\* takes min(hits * 6, 20)
C21_PhraseHits ==
  (pc = "served" /\ requestWords # <<>>) =>
    LET lower == toLowerCase(inputText)
        present == {k \in 1..Len(phrases) : \E i \in 1..Len(lower) : OccursAt(lower, phrases[k], i)}
    IN response.aiLikelihood = scoreWithPhraseHits(Cardinality(present))

\* a request in which a phrase occurs twice, with the score of one hit for it
C21_Witness ==
  /\ pc = "served"
  /\ requestWords # <<>>
  /\ \E k \in 1..Len(phrases) : occurrences(toLowerCase(inputText), phrases[k]) >= 2
  /\ phraseOccurrences(inputText) * 6 <= 20
  /\ response.aiLikelihood < scoreWithPhraseHits(phraseOccurrences(inputText))

\* the positions of the sentences of the request that have no normalized word
wordless == {k \in 1..Len(requestSentences) : normalizeToWords(requestSentences[k]) = <<>>}

\* C22 as stated: analyzeSentences returns no entry for a sentence without
\* normalized words
C22_WordlessExcludedAsStated ==
  pc = "served" =>
    \A k \in 1..Len(response.highlights) :
      normalizeToWords(response.highlights[k].text) # <<>>

\* C22, amended: a sentence without normalized words is left out of the sentence
\* lengths of computeAiLikelihood only; analyzeSentences returns its entry, with
\* score 0 and label "Human-written", and it counts in sentenceCount
C22_WordlessScoredZero ==
  pc = "served" =>
    /\ response.sentenceCount = Len(requestSentences)
    /\ Len(sentenceLengths(requestSentences)) = Len(requestSentences) - Cardinality(wordless)
    /\ \A k \in wordless :
         /\ response.highlights[k].text = requestSentences[k]
         /\ response.highlights[k].score = 0
         /\ response.highlights[k].label = "Human-written"

\* a run of terminators after a space and a sentence with words: two entries
C22_Witness ==
  /\ pc = "served"
  /\ requestWords # <<>>
  /\ \E k \in wordless : k > 1 /\ IsSpace(inputText[response.highlights[k].start + 1])
  /\ response.sentenceCount = 2

\* the fields of fileData that computeLanguageQuality and computeContentDepth read
\* (lines 799-806 set text and wordCount, and neither sentenceCount nor charCount)
subScoreData(i) ==
  [text |-> filesContent[i].text, wordCount |-> filesContent[i].wordCount]

\* the same with the document's sentence count and character count
subScoreDataWithCounts(i) ==
  [text |-> filesContent[i].text, wordCount |-> filesContent[i].wordCount,
   sentenceCount |-> processed[i].sentenceCount, charCount |-> processed[i].charCount]

\* C23: the language-quality sub-score scales the formal-word count by the
\* document's sentence count, and the content-depth sub-score uses the
\* document's character count and sentence count
C23_SubScoresUseCounts ==
  pc = "analyzed" =>
    \A i \in 1..Len(filesContent) :
      /\ computeLanguageQuality(subScoreData(i))
           = computeLanguageQuality(subScoreDataWithCounts(i))
      /\ computeContentDepth(subScoreData(i))
           = computeContentDepth(subScoreDataWithCounts(i))

\* C24: for every document with a non-empty text, the entries of
\* sentencesWithDelimiters joined in order are the text of the document
C24_PreviewReproducesText ==
  pc = "analyzed" =>
    \A i \in 1..Len(filesContent) :
      filesContent[i].text # <<>> =>
        join(filesContent[i].sentencesWithDelimiters, <<>>) = filesContent[i].text

\* C25: the server's and the client's normalizeToWords return the same words for
\* every text: the words the server computes for a request are those the client
\* function gives, and the words of every document those the server function gives
C25_SameWordsBothVariants ==
  /\ pc = "served" => requestWords = normalizeToWordsClient(inputText)
  /\ pc = "analyzed" =>
       \A i \in 1..Len(processed) : processed[i].words = normalizeToWords(processed[i].text)

\* C26: the content-quality mark of a document is 0 exactly when the document
\* has no normalized word, and is an integer from 1 to 99 when it has one
C26_MarkZeroIffWordless ==
  pc = "analyzed" =>
    \A i \in 1..Len(processed) :
      /\ processed[i].aiContentScore = filesContent[i].aiContentScore
      /\ processed[i].aiContentScore = RInt(0) <=> processed[i].words = <<>>
      /\ processed[i].words # <<>> =>
           /\ IsInteger(processed[i].aiContentScore)
           /\ processed[i].aiContentScore.n \in 1..99

\* a batch with a document of punctuation only, marked 0, and one with words
C26_Witness ==
  /\ pc = "analyzed"
  /\ \E i, j \in 1..Len(processed) :
       /\ processed[i].text # <<>> /\ processed[i].words = <<>>
       /\ processed[i].aiContentScore = RInt(0)
       /\ processed[j].words # <<>>
       /\ processed[j].aiContentScore.n > 0

(***************************************************************************)
(* The page: the buttons of the browser script, its items in               *)
(* sessionStorage and the Analyze click handler with its awaits            *)
(* (src/unnamed/part_001 lines 404-858).  files is selectedFiles and       *)
(* inputText is textInput.value.                                           *)
(***************************************************************************)
\* sessionStorage.getItem gives null for a missing key and a string otherwise
NoItem == [present |-> FALSE, value |-> <<>>]
Item(value) == [present |-> TRUE, value |-> value]

\* a File the user picked: reads tells whether reading it succeeds ("ok") or
\* fails ("error": the FileReader's error event, or mammoth or pdf.js throwing)
PickedFile(name, text, reads) ==
  [name |-> name, size |-> Len(text), isFile |-> TRUE, text |-> text, reads |-> reads]

\* what the page load puts in selectedFiles for an entry of 'uploadedFiles':
\* a plain object with a name, size 0 and a type, which is no File
restoredFile(f) ==
  [name |-> f.name, size |-> 0, isFile |-> FALSE, text |-> <<>>, reads |-> "ok"]

EndsWith(s, suffix) ==
  /\ Len(s) >= Len(suffix)
  /\ SubSeq(s, Len(s) - Len(suffix) + 1, Len(s)) = suffix

\* readFileAsText: the promise resolves with the text, or with '' on the reader's
\* error event; readAsText throws a TypeError inside the promise's executor for
\* an argument that is no Blob, and the promise is rejected
readFileAsText(file) ==
  IF ~file.isFile THEN Thrown
  ELSE IF file.reads = "ok" THEN Returned(file.text) ELSE Returned(<<>>)

\* file.arrayBuffer() and the library call inside try { } catch(e) { return ''; }
extractGuarded(file) ==
  IF file.isFile /\ file.reads = "ok" THEN Returned(file.text) ELSE Returned(<<>>)

extractTextFromFileClient(file) ==
  LET name == toLowerCase(file.name)
  IN IF EndsWith(name, <<".","t","x","t">>) THEN readFileAsText(file)
     ELSE IF EndsWith(name, <<".","d","o","c","x">>) THEN extractGuarded(file)
     ELSE IF EndsWith(name, <<".","p","d","f">>) THEN extractGuarded(file)
     ELSE readFileAsText(file)

ALLOWED_EXTENSIONS == {<<".","t","x","t">>, <<".","p","d","f">>, <<".","d","o","c","x">>}

\* PREFERRED_ALLOWED after normalizePreferred; none of them is an exact file name
NORMALIZED_PREFERRED == {<<".","t","e","x","t">>, <<".","p","d","f">>, <<".","d","o","c","x">>}

\* the extension the change handler computes: name.slice(dot).toLowerCase()
extensionOf(name) ==
  LET dot == LastIndexOf(name, ".")
  IN IF dot >= 1 THEN toLowerCase(SubSeq(name, dot, Len(name))) ELSE <<>>

extAllowed(f) == extensionOf(f.name) \in ALLOWED_EXTENSIONS \cup NORMALIZED_PREFERRED

\* the entries of 'uploadedFiles', of the upload list and of the result cards are
\* kept by the file names they show
namesOf(list) == [i \in 1..Len(list) |-> list[i].name]

\* filesData of the change listener: what 'uploadedFiles' keeps of each file
filesData(selected) == [i \in 1..Len(selected) |-> [name |-> selected[i].name]]

\* generateTextReport, kept by the documents the report covers
generateTextReport(docs) == [covers |-> namesOf(docs)]

\* the elements the script reads with getElementById, as the markup gives them.
\* The markup is not among the sources; the script enables the Analyze button
\* whenever it finds something to analyse and displays the badge and the download
\* button itself, so the markup is taken to disable the one and hide the others
initialDom ==
  [analyzeDisabled |-> TRUE, analyzeText |-> <<"A","n","a","l","y","z","e">>, badgeShown |-> FALSE,
   uploadList |-> <<>>, resultsGrid |-> <<>>, downloadShown |-> FALSE,
   lastReport |-> NoItem, lastReportText |-> NoItem, fileStore |-> <<>>,
   downloaded |-> NoItem]

emptyStorage ==
  [uploadedFiles |-> NoItem, filesContent |-> NoItem, filesAnalysis |-> NoItem,
   lastReport |-> NoItem, lastReportText |-> NoItem]

\* restoreUiState (lines 513-537)
restoreUiState(d, storage) ==
  LET listed == IF storage.uploadedFiles.present
                THEN [d EXCEPT !.uploadList = namesOf(storage.uploadedFiles.value)]
                ELSE d
  IN IF storage.filesAnalysis.present
     THEN [listed EXCEPT !.resultsGrid = namesOf(storage.filesAnalysis.value),
                         !.downloadShown = TRUE]
     ELSE listed

\* the two pageshow listeners, in the order they are added (lines 486-493, 540-555)
pageshow(d, storage) ==
  LET first == IF storage.filesAnalysis.present THEN [d EXCEPT !.downloadShown = TRUE] ELSE d
  IN IF storage.uploadedFiles.present \/ storage.filesAnalysis.present
     THEN LET restored == [restoreUiState(first, storage) EXCEPT !.analyzeDisabled = FALSE]
          IN IF storage.filesAnalysis.present
             THEN [restored EXCEPT !.downloadShown = TRUE]
             ELSE restored
     ELSE first

\* selectedFiles after the page load (lines 505, 557-570): JSON.parse(null).length
\* throws and is caught
loadedFiles(storage) ==
  IF storage.uploadedFiles.present /\ Len(storage.uploadedFiles.value) > 0
  THEN [i \in 1..Len(storage.uploadedFiles.value) |->
          restoredFile(storage.uploadedFiles.value[i])]
  ELSE <<>>

\* the page after the script and its DOMContentLoaded listener have run
loadedDom(storage) ==
  IF storage.uploadedFiles.present /\ Len(storage.uploadedFiles.value) > 0
  THEN [restoreUiState(initialDom, storage) EXCEPT !.analyzeDisabled = FALSE]
  ELSE initialDom

\* window.handleDownloadReport called without a file index (lines 423-483): the
\* file it hands to the browser, if any
handleDownloadReport(d, storage) ==
  LET reportText == IF d.lastReportText.present THEN d.lastReportText
                    ELSE storage.lastReportText
      jsonReport == IF d.lastReport.present THEN d.lastReport ELSE storage.lastReport
  IN IF reportText.present THEN Item([type |-> "text/plain", content |-> reportText.value])
     ELSE IF jsonReport.present
          THEN Item([type |-> "application/json", content |-> jsonReport.value])
          ELSE NoItem

\* the texts typed into the textarea
PageTexts == {<<>>, <<"I"," ","m","a","y",".">>}

\* the selections made in the file dialog
RawSelections ==
  { <<PickedFile(<<"t","e","n",".","p","d","f">>, <<"O","k","?">>, "ok"), PickedFile(<<"s","i","x",".","d","o","c","x">>, <<"W","e"," ","d","o",".">>, "error"),
      PickedFile(<<"o","n","e",".","t","x","t">>, <<"I"," ","m","a","y"," ","g","o",".">>, "ok")>>,
    <<PickedFile(<<"t","w","o",".","T","X","T">>, <<"S","o"," ","i","t"," ","i","s",".">>, "error"), PickedFile(<<"r","u","n",".","e","x","e">>, <<"x">>, "ok")>> }

\* if (textInput.value.trim()) docs.push({name:'Pasted Text', ...}) (line 716)
pastedDocument(text) ==
  IF trim(text) # <<>>
  THEN <<[name |-> <<"P","a","s","t","e","d"," ","T","e","x","t">>, size |-> Len(text), text |-> text]>>
  ELSE <<>>

\* processed and filesContent of the listener for the documents docs (lines
\* 719-831).  The page keeps an analysis by the documents analysed: an item or a
\* window property holding docs stands for processedOf(docs)
processedOf(docs) == [i \in 1..Len(docs) |-> analyzeDocument(docs, i).processed]
filesContentOf(docs) == [i \in 1..Len(docs) |-> analyzeDocument(docs, i).content]

idleHandler == [pc |-> "idle", files |-> <<>>, docs |-> <<>>]

\* the first visit of the page: nothing is in sessionStorage
InitPage ==
  /\ pc = "page"
  /\ referenceText = <<>>
  /\ inputText = <<>>
  /\ files = <<>>
  /\ requestWords = NoResult
  /\ response = NoResult
  /\ processed = NoResult
  /\ filesContent = NoResult
  /\ requests = <<>>
  /\ uploads = <<>>
  /\ sessionStorage = emptyStorage
  /\ handler = idleHandler
  /\ dom = pageshow(loadedDom(emptyStorage), emptyStorage)

\* processed and filesContent are locals of the Analyze listener and do not
\* outlive it: what it leaves is in dom and sessionStorage
serverVars == <<referenceText, requestWords, response, requests, uploads, pc>>

\* analyzeBtn.disabled = selectedFiles.length === 0 && !textInput.value.trim()
nothingToAnalyze(selected, text) == Len(selected) = 0 /\ trim(text) = <<>>

\* the change listener of the file input (lines 572-611); no dialog offers more
\* than 30 files here
SelectFiles ==
  \E raw \in RawSelections :
    LET allowed == SelectSeq(raw, extAllowed)
    IN /\ files' = allowed
       /\ sessionStorage' = [sessionStorage EXCEPT !.uploadedFiles = Item(filesData(allowed))]
       /\ dom' = [dom EXCEPT !.fileStore = allowed,
                             !.uploadList = namesOf(allowed),
                             !.analyzeDisabled = nothingToAnalyze(allowed, inputText)]
       /\ UNCHANGED <<serverVars, inputText, processed, filesContent, handler>>

\* typing in the textarea and its input listener (line 616)
TypeText ==
  \E text \in PageTexts :
    /\ text # inputText
    /\ inputText' = text
    /\ dom' = [dom EXCEPT !.analyzeDisabled = nothingToAnalyze(files, text)]
    /\ UNCHANGED <<serverVars, files, processed, filesContent, sessionStorage, handler>>

\* the click listener of the Clear button (lines 618-620)
ClickClear ==
  /\ files' = <<>>
  /\ inputText' = <<>>
  /\ dom' = [dom EXCEPT !.fileStore = <<>>, !.uploadList = <<>>, !.resultsGrid = <<>>,
                        !.analyzeDisabled = TRUE, !.downloadShown = FALSE]
  /\ sessionStorage' = [sessionStorage EXCEPT !.uploadedFiles = NoItem,
                                              !.filesContent = NoItem]
  /\ UNCHANGED <<serverVars, processed, filesContent, handler>>

\* the click listener of Analyze after its loop over selectedFiles (lines 716-853),
\* from the page d and the documents extracted
AfterExtraction(d, extracted) ==
  LET docs == extracted \o pastedDocument(inputText)
  IN IF Len(docs) = 0
     THEN /\ dom' = [d EXCEPT !.analyzeDisabled = FALSE, !.analyzeText = <<"A","n","a","l","y","z","e">>]
          /\ UNCHANGED sessionStorage
     ELSE /\ sessionStorage' =
               [sessionStorage EXCEPT !.filesContent = Item(docs),
                                      !.filesAnalysis = Item(docs),
                                      !.lastReport = Item(docs),
                                      !.lastReportText = Item(generateTextReport(docs))]
          /\ dom' = [d EXCEPT !.resultsGrid = namesOf(docs),
                              !.lastReport = Item(docs),
                              !.lastReportText = Item(generateTextReport(docs)),
                              !.downloadShown = TRUE,
                              !.analyzeDisabled = FALSE,
                              !.analyzeText = <<"A","n","a","l","y","z","e">>,
                              !.badgeShown = FALSE]

\* a click on Analyze (lines 710-714): up to the first await of the loop, or to
\* the end of the listener when selectedFiles is empty.  A disabled button gets
\* no click; one listener runs at a time
ClickAnalyze ==
  /\ ~dom.analyzeDisabled
  /\ handler.pc = "idle"
  /\ LET started == [dom EXCEPT !.analyzeDisabled = TRUE,
                                !.analyzeText = <<"A","n","a","l","y","z","i","n","g",".",".",".">>,
                                !.resultsGrid = <<>>,
                                !.downloadShown = FALSE,
                                !.badgeShown = TRUE]
     IN IF files = <<>>
        THEN /\ AfterExtraction(started, <<>>)
             /\ UNCHANGED handler
        ELSE /\ dom' = started
             /\ handler' = [pc |-> "extracting", files |-> files, docs |-> <<>>]
             /\ UNCHANGED sessionStorage
  /\ UNCHANGED <<serverVars, inputText, files, processed, filesContent>>

\* the listener resumes after await extractTextFromFileClient(f): a rejected
\* promise ends it there; after the last file it runs to its end
ExtractNext ==
  /\ handler.pc = "extracting"
  /\ LET f == handler.files[Len(handler.docs) + 1]
         text == extractTextFromFileClient(f)
         docs == Append(handler.docs, [name |-> f.name, size |-> f.size, text |-> text.value])
     IN IF text.threw
        THEN /\ handler' = idleHandler
             /\ UNCHANGED <<dom, sessionStorage>>
        ELSE IF Len(docs) < Len(handler.files)
        THEN /\ handler' = [handler EXCEPT !.docs = docs]
             /\ UNCHANGED <<dom, sessionStorage>>
        ELSE /\ handler' = idleHandler
             /\ AfterExtraction(dom, docs)
  /\ UNCHANGED <<serverVars, inputText, files, processed, filesContent>>

\* the page is shown again from the back/forward cache: the script's state is
\* kept and the pageshow listeners run
Pageshow ==
  /\ dom' = pageshow(dom, sessionStorage)
  /\ UNCHANGED <<serverVars, inputText, files, processed, filesContent, sessionStorage, handler>>

\* the page is loaded anew in the same tab: the script runs from its start with
\* the items of sessionStorage, then the pageshow listeners run
LoadPage ==
  /\ dom' = pageshow(loadedDom(sessionStorage), sessionStorage)
  /\ files' = loadedFiles(sessionStorage)
  /\ inputText' = <<>>
  /\ handler' = idleHandler
  /\ UNCHANGED <<serverVars, processed, filesContent, sessionStorage>>

\* a click on the download button, when it is displayed (lines 622-641)
ClickDownload ==
  /\ dom.downloadShown
  /\ dom' = [dom EXCEPT !.downloaded = handleDownloadReport(dom, sessionStorage)]
  /\ UNCHANGED <<serverVars, inputText, files, processed, filesContent, sessionStorage, handler>>

NextPage ==
  \/ SelectFiles
  \/ TypeText
  \/ ClickClear
  \/ ClickAnalyze
  \/ ExtractNext
  \/ Pageshow
  \/ LoadPage
  \/ ClickDownload

\* the browser's event loop runs the continuation of every settled promise
SpecPage == InitPage /\ [][NextPage]_vars /\ WF_vars(ExtractNext)

\* the Analyze button as the listener should leave it
buttonRestored ==
  /\ ~dom.analyzeDisabled
  /\ dom.analyzeText = <<"A","n","a","l","y","z","e">>
  /\ ~dom.badgeShown

\* the Analyze listener ends in this step: it returns, or a rejected promise ends it
listenerEnds == (ClickAnalyze \/ ExtractNext) /\ handler'.pc = "idle"

\* C27: every click on Analyze eventually ends with the button enabled, its text
\* "Analyze" and the analyzing badge hidden: a listener that waits for a file
\* comes to its end, and every step that ends a listener leaves the button so
C27_ClickRestoresButton ==
  /\ (handler.pc = "extracting") ~> (handler.pc = "idle")
  /\ [][listenerEnds => buttonRestored']_vars

\* no result of an analysis is within reach of the page p and the stored items
nothingReachable(p, storage) ==
  /\ pageshow(p, storage).resultsGrid = <<>>
  /\ ~pageshow(p, storage).downloadShown
  /\ ~handleDownloadReport(p, storage).present

\* C28: after a click on Clear no result of an earlier analysis remains
\* reachable: a pageshow of the page, or a load of it followed by its pageshow,
\* renders no result card and does not display the download button, and
\* handleDownloadReport produces no file
C28_ClearForgetsResults ==
  [][ClickClear =>
       /\ nothingReachable(dom', sessionStorage')
       /\ nothingReachable(loadedDom(sessionStorage'), sessionStorage')]_vars

====
